---- MODULE Spec2Model ----
(***************************************************************************)
(* Asynchronous generation-job orchestration of the Archvision client:     *)
(* the job poller (usePollJob), the job dispatch effects of WorkspacePage  *)
(* and ProjectPage, the pipeline status, and the chat stream consumer      *)
(* (useChat.sendMessage).                                                   *)
(*                                                                         *)
(* React is modelled at the granularity of one event-loop task: an action  *)
(* is one event handler, timer callback or promise continuation together   *)
(* with the re-render and the effects that its state updates trigger.      *)
(***************************************************************************)
EXTENDS Integers, Sequences, FiniteSets, TLC

NULL == "null"
\* no job id / no timer handle (null)
NoId == 0

\* ---------------------------------------------------------------- bounds
MaxJobs == 2
MaxInflight == 2
MaxSends == 1
MaxFrames == 3

JobIds == 1..MaxJobs

\* approval requests sent in one behaviour
MaxPuts == 3

\* usePollJob instances: WorkspacePage.jsx:54, ProjectPage.jsx:182-183
Slots == {"room", "zoning", "technical"}

VARIABLES
    \* ---- server side (observed only through responses)
    jobs,              \* job id -> [type, status, output]
    nextJob,           \* next job id the server hands out
    srvRoom,           \* the room document of the server
    srvProject,        \* report slot -> PDF carried by the project document
    \* ---- usePollJob, one instance per slot
    jobId,             \* the jobId argument (activeJobId / zoningJobId / technicalInfoJobId)
    job,               \* useState(null): latest snapshot
    polling,           \* useState(false)
    intervalRef,       \* useRef(null): handle of the interval
    timers,            \* live setInterval timers of the page
    nextTimer,         \* next timer handle
    statusReqs,        \* GET /generate/status/<id> requests in flight
    \* ---- WorkspacePage
    pipelineStatus,
    threeProgress,
    activeTab,
    generatedImages,
    pendingDownloadRef,
    room,
    roomLoading,
    submits,           \* POST /generate/* requests in flight
    submitCount,
    roomFetches,       \* fetchRoom calls in flight
    msgFetches,        \* fetchMessages calls in flight
    clock,             \* Date.now()
    \* ---- ProjectPage
    busy,              \* zoningBusy / technicalInfoBusy
    projectFetches,    \* completed-branch continuations awaiting fetchProject
    \* ---- useChat
    messages,          \* useState([]): the transcript
    streaming,         \* useState(false)
    stream,            \* the latest sendMessage call: where it stands, its locals
    nSends,            \* sendMessage calls made from the chat input so far
    framesSent,        \* frames the server has streamed so far
    noticed,           \* job ids announced by the action notices consumed
    \* ---- the page's life and its wall clock
    mounted,           \* the page component is mounted
    timeNow,           \* useState(() => Date.now()), WorkspacePage.jsx:39
    lateUpdates,       \* poller state updates attempted after the unmount
    fetchFailed,       \* job ids for which a status fetch has failed
    stream2,           \* the sendMessage call made by handleRejectImage
    approve,           \* handleApproveImage: requests in flight and what was sent
    \* ---- observations
    toast,             \* last toast shown
    downloads,         \* job id -> downloads started on behalf of the job
    dispatched,        \* job id -> runs of the terminal branch of a dispatch effect
    terminalSeen,      \* job ids for which a terminal status response was received
    lastEvent          \* the failure the last step was, or "none"

srvVars == <<jobs, nextJob, srvRoom, srvProject>>
pollVars == <<jobId, job, polling, intervalRef, timers, nextTimer, statusReqs>>
wsVars == <<pipelineStatus, threeProgress, activeTab, generatedImages, pendingDownloadRef,
            room, roomLoading, submits, submitCount, roomFetches, msgFetches, clock>>
projVars == <<busy, projectFetches>>
obsVars == <<toast, downloads, dispatched, terminalSeen, lastEvent>>

chatVars == <<messages, streaming, stream, nSends, framesSent, noticed>>

extVars == <<fetchFailed, stream2, approve>>
lifeVars == <<mounted, timeNow, lateUpdates, extVars>>

vars == <<srvVars, pollVars, wsVars, projVars, chatVars, lifeVars, obsVars>>

\* ------------------------------------------------------------ job records
\* App.jsx:132-137
GENERATION_STATUS == [pending |-> "pending", processing |-> "processing",
                      completed |-> "completed", failed |-> "failed"]

IsTerminal(status) ==
    status = GENERATION_STATUS.completed \/ status = GENERATION_STATUS.failed

\* output: resultUrls is present iff hasUrls; error is NULL when absent
NoOutput == [hasUrls |-> FALSE, resultUrls |-> <<>>, error |-> NULL]
NoJob == [type |-> "none", status |-> "none", output |-> NoOutput]
\* the snapshot state before any response (useState(null))
NoSnapshot == [id |-> NoId, type |-> "none", status |-> "none", output |-> NoOutput]
\* no progress snapshot (useState(null))
NoProgress == [model |-> NULL, startedAt |-> 0, estimatedMs |-> 0]
\* no room loaded (useState(null)); room?.x reads as absent
NoRoom == [artifactUrl |-> NULL, artifactContent |-> FALSE, has3d |-> FALSE,
           approved2dImageUrls |-> <<>>]

\* outputs an image_2d job may complete with (the first: no resultUrls field)
ResultChoices ==
    {[hasUrls |-> FALSE, resultUrls |-> <<>>, error |-> NULL],
     [hasUrls |-> TRUE, resultUrls |-> <<"u1">>, error |-> NULL],
     [hasUrls |-> TRUE, resultUrls |-> <<"u2", "u1">>, error |-> NULL]}
\* error texts a failed job may carry (NULL: no error field)
ErrorChoices == {NULL, "quota exceeded"}

\* GET /generate/status/<id>  ->  { job: { id, type, status, output? } }
Snapshot(id) ==
    [id |-> id, type |-> jobs[id].type, status |-> jobs[id].status,
     output |-> jobs[id].output]

\* the elements of an array
Range(xs) == {xs[i] : i \in 1..Len(xs)}

\* [...new Set(xs)]: first occurrences, in order
RECURSIVE Dedup(_)
Dedup(xs) ==
    IF xs = <<>> THEN <<>>
    ELSE LET front == Dedup(SubSeq(xs, 1, Len(xs) - 1))
             x == xs[Len(xs)]
         IN IF \E i \in 1..Len(front) : front[i] = x THEN front ELSE Append(front, x)

\* ------------------------------------------------------------- usePollJob
\* The hook's mutable state, threaded through the calls of one task.
PollCtx ==
    [timers |-> timers, intervalRef |-> intervalRef, polling |-> polling,
     statusReqs |-> statusReqs, nextTimer |-> nextTimer]

\* a clearInterval that does nothing
ClearIntervalNoop(T, h) == T

ClearInterval(T, h) == {t \in T : t.h # h}

\* stopPolling that forgets clearInterval
StopPollingKeepsTimer(c, s) ==
    [c EXCEPT !.intervalRef[s] = NoId, !.polling[s] = FALSE]

StopPolling(c, s) ==
    [c EXCEPT !.timers = IF c.intervalRef[s] # NoId
                         THEN ClearInterval(@, c.intervalRef[s]) ELSE @,
              !.intervalRef[s] = NoId,
              !.polling[s] = FALSE]

\* poll(): issues GET /generate/status/<id>
IssuePoll(c, s, id) == [c EXCEPT !.statusReqs[s][id] = @ + 1]

StartPolling(c, s, id) ==
    LET c1 == [c EXCEPT !.timers = IF c.intervalRef[s] # NoId
                                   THEN ClearInterval(@, c.intervalRef[s]) ELSE @,
                        !.polling[s] = TRUE]
        c2 == IssuePoll(c1, s, id)
    IN [c2 EXCEPT !.timers = @ \cup {[h |-> c.nextTimer, slot |-> s, id |-> id]},
                  !.intervalRef[s] = c.nextTimer,
                  !.nextTimer = @ + 1]

\* useEffect(..., [jobId, ...]): cleanup of the previous run, then the new run
JobIdEffect(c, s, old, new) ==
    IF old = new THEN c
    ELSE LET c1 == StopPolling(c, s)
         IN IF new # NoId THEN StartPolling(c1, s, new) ELSE c1

SetPollCtx(c) ==
    /\ timers' = c.timers
    /\ intervalRef' = c.intervalRef
    /\ polling' = c.polling
    /\ statusReqs' = c.statusReqs
    /\ nextTimer' = c.nextTimer

\* ---------------------------------------------------------- WorkspacePage
\* WorkspacePage.jsx:16-19
THREE_MODEL_ESTIMATE_MS ==
    [m \in {"Marble 0.1-mini", "Marble 0.1-plus"} |->
        IF m = "Marble 0.1-mini" THEN 45 * 1000 ELSE 10 * 60 * 1000]

ThreeModels == DOMAIN THREE_MODEL_ESTIMATE_MS

\* POST /generate/2d, /generate/artifact, /generate/3d (with its model)
SubmitReqs ==
    {[kind |-> "2d", model |-> NULL], [kind |-> "artifact", model |-> NULL]}
      \cup {[kind |-> "3d", model |-> m] : m \in ThreeModels}

\* POST /generate/project-zoning, /generate/project-technical-info
ReportSlots == {"zoning", "technical"}
ReportSubmitReqs == {[kind |-> s, model |-> NULL] : s \in ReportSlots}
AllSubmitReqs == SubmitReqs \cup ReportSubmitReqs

JobTypeOf(kind) ==
    CASE kind = "2d" -> "image_2d"
      [] kind = "artifact" -> "artifact"
      [] kind = "3d" -> "model_3d"
      [] kind = "zoning" -> "zoning_report"
      [] kind = "technical" -> "technical_info_report"

\* fetchRoom calls in flight: 0 is a plain call, j the call whose continuation
\* downloads the spec on behalf of artifact job j (WorkspacePage.jsx:124)
RoomFetchKinds == {0} \cup JobIds

\* what the server may attach to the room when an artifact job completes
ArtifactChoices ==
    {[artifactUrl |-> "artifact://spec", artifactContent |-> TRUE],
     [artifactUrl |-> "artifact://spec", artifactContent |-> FALSE],
     [artifactUrl |-> "https://cdn/spec.md", artifactContent |-> FALSE]}

\* performDownload(roomData): "none", "unavailable", "blob" or "open"
PerformDownload(roomData) ==
    IF roomData.artifactUrl = NULL THEN "none"
    ELSE IF roomData.artifactUrl = "artifact://spec"
         THEN IF ~roomData.artifactContent THEN "unavailable" ELSE "blob"
         ELSE "open"

StartsDownload(roomData) == PerformDownload(roomData) \in {"blob", "open"}

approvedCount == Len(room.approved2dImageUrls)
hasArtifact == room.artifactUrl # NULL
activeJobId == jobId["room"]
activeJob == job["room"]

\* ---- the ETA estimator: threeProgressUi (WorkspacePage.jsx:56-73)
\* Math.max / Math.min on integers
Max(a, b) == IF a >= b THEN a ELSE b
Min(a, b) == IF a <= b THEN a ELSE b

\* A JavaScript number that is a quotient of two integers, kept exact as
\* num / den in lowest terms with den > 0 (the rounding of the double is not
\* modelled).
RECURSIVE GCD(_, _)
GCD(a, b) == IF b = 0 THEN a ELSE GCD(b, a % b)

Rat(n, d) == LET g == GCD(n, d) IN [num |-> n \div g, den |-> d \div g]
RatLeq(p, q) == p.num * q.den <= q.num * p.den
RatEq(p, q) == p.num * q.den = q.num * p.den
RatMin(p, q) == IF RatLeq(p, q) THEN p ELSE q

\* the progress expression without Math.min(95, ...)
UncappedProgress(elapsedMs, estimatedMs) == Rat(elapsedMs * 100, estimatedMs)

\* Math.min(95, (elapsedMs / estimatedMs) * 100)   (line 62)
CappedProgress(elapsedMs, estimatedMs) ==
    RatMin(Rat(95, 1), Rat(elapsedMs * 100, estimatedMs))

\* the memo's null result
NoProgressUi ==
    [active |-> FALSE, model |-> NULL, progress |-> Rat(0, 1), remainingMs |-> 0,
     isOverEstimate |-> FALSE, modelCompleted |-> FALSE]

ThreeProgressUi(status, tp, now, aj) ==
    IF status # "generating_3d" \/ tp = NoProgress THEN NoProgressUi
    ELSE LET elapsedMs == Max(0, now - tp.startedAt)
             estimatedMs == Max(1, tp.estimatedMs)
             modelCompleted == aj.type = "model_3d" /\ aj.status = "completed"
         IN [active |-> TRUE,
             model |-> tp.model,
             progress |-> IF modelCompleted THEN Rat(100, 1)
                          ELSE CappedProgress(elapsedMs, estimatedMs),
             remainingMs |-> IF modelCompleted THEN 0
                             ELSE Max(0, estimatedMs - elapsedMs),
             isOverEstimate |-> ~modelCompleted /\ elapsedMs > estimatedMs,
             modelCompleted |-> modelCompleted]

threeProgressUi == ThreeProgressUi(pipelineStatus, threeProgress, timeNow, activeJob)

\* The component state the dispatch effect reads and writes.
WsCtx ==
    [pipelineStatus |-> pipelineStatus, threeProgress |-> threeProgress,
     activeTab |-> activeTab, generatedImages |-> generatedImages,
     pendingDownloadRef |-> pendingDownloadRef, roomFetches |-> roomFetches,
     msgFetches |-> msgFetches, activeJobId |-> activeJobId, toast |-> toast,
     dispatched |-> dispatched]

\* a completed branch whose model_3d case forgets setActiveTab('3d')
DispatchCompletedKeepsTab(w, a) ==
    LET w1 ==
          IF a.type = "image_2d" /\ a.output.hasUrls
          THEN [w EXCEPT !.generatedImages = Dedup(@ \o a.output.resultUrls),
                         !.msgFetches = @ + 1,
                         !.pipelineStatus = NULL]
          ELSE IF a.type = "model_3d"
          THEN [w EXCEPT !.roomFetches[0] = @ + 1,
                         !.pipelineStatus = NULL,
                         !.threeProgress = NoProgress]
          ELSE IF a.type = "artifact"
          THEN IF w.pendingDownloadRef
               THEN [w EXCEPT !.pendingDownloadRef = FALSE,
                              !.roomFetches[a.id] = @ + 1,
                              !.pipelineStatus = NULL]
               ELSE [w EXCEPT !.roomFetches[0] = @ + 1,
                              !.pipelineStatus = NULL]
          ELSE w
    IN [w1 EXCEPT !.activeJobId = NoId, !.dispatched[a.id] = @ + 1]

\* useEffect(..., [activeJob, fetchMessages, fetchRoom]), completed branch
DispatchCompleted(w, a) ==
    LET w1 ==
          IF a.type = "image_2d" /\ a.output.hasUrls
          THEN [w EXCEPT !.generatedImages = Dedup(@ \o a.output.resultUrls),
                         !.msgFetches = @ + 1,
                         !.pipelineStatus = NULL]
          ELSE IF a.type = "model_3d"
          THEN [w EXCEPT !.roomFetches[0] = @ + 1,
                         !.activeTab = "3d",
                         !.pipelineStatus = NULL,
                         !.threeProgress = NoProgress]
          ELSE IF a.type = "artifact"
          THEN IF w.pendingDownloadRef
               THEN [w EXCEPT !.pendingDownloadRef = FALSE,
                              !.roomFetches[a.id] = @ + 1,
                              !.pipelineStatus = NULL]
               ELSE [w EXCEPT !.roomFetches[0] = @ + 1,
                              !.pipelineStatus = NULL]
          ELSE w
    IN [w1 EXCEPT !.activeJobId = NoId, !.dispatched[a.id] = @ + 1]

\* failed branch
DispatchFailed(w, a) ==
    [w EXCEPT !.toast = IF a.output.error # NULL THEN a.output.error
                        ELSE "Generation failed",
              !.threeProgress = IF a.type = "model_3d" THEN NoProgress ELSE @,
              !.pipelineStatus = NULL,
              !.activeJobId = NoId,
              !.dispatched[a.id] = @ + 1]

DispatchEffect(w, a) ==
    IF a = NoSnapshot THEN w
    ELSE IF a.status = "completed" THEN DispatchCompleted(w, a)
    ELSE IF a.status = "failed" THEN DispatchFailed(w, a)
    ELSE w

SetWsCtx(w) ==
    /\ pipelineStatus' = w.pipelineStatus
    /\ threeProgress' = w.threeProgress
    /\ activeTab' = w.activeTab
    /\ generatedImages' = w.generatedImages
    /\ pendingDownloadRef' = w.pendingDownloadRef
    /\ roomFetches' = w.roomFetches
    /\ msgFetches' = w.msgFetches
    /\ toast' = w.toast
    /\ dispatched' = w.dispatched

\* --------------------------------------------------------------- the server
\* The job runner moves a job pending -> processing -> completed | failed and
\* attaches the result to the owning document.
ServerStart(id) ==
    /\ jobs[id].status = "pending"
    /\ jobs' = [jobs EXCEPT ![id].status = "processing"]
    /\ UNCHANGED <<nextJob, srvRoom, srvProject>>
    /\ lastEvent' = "none"
    /\ UNCHANGED chatVars
    /\ UNCHANGED lifeVars
    /\ UNCHANGED <<pollVars, wsVars, projVars, toast, downloads, dispatched, terminalSeen>>

ServerComplete(id) ==
    /\ jobs[id].status = "processing"
    /\ \/ /\ jobs[id].type = "image_2d"
          /\ \E out \in ResultChoices :
                jobs' = [jobs EXCEPT ![id].status = "completed", ![id].output = out]
          /\ UNCHANGED <<srvRoom, srvProject>>
       \/ /\ jobs[id].type = "artifact"
          /\ jobs' = [jobs EXCEPT ![id].status = "completed"]
          /\ \E art \in ArtifactChoices :
                srvRoom' = [srvRoom EXCEPT !.artifactUrl = art.artifactUrl,
                                           !.artifactContent = art.artifactContent]
          /\ UNCHANGED srvProject
       \/ /\ jobs[id].type = "model_3d"
          /\ jobs' = [jobs EXCEPT ![id].status = "completed"]
          /\ srvRoom' = [srvRoom EXCEPT !.has3d = TRUE]
          /\ UNCHANGED srvProject
    /\ UNCHANGED nextJob
    /\ lastEvent' = "none"
    /\ UNCHANGED chatVars
    /\ UNCHANGED lifeVars
    /\ UNCHANGED <<pollVars, wsVars, projVars, toast, downloads, dispatched, terminalSeen>>

ServerFail(id) ==
    /\ jobs[id].status = "processing"
    /\ \E e \in ErrorChoices :
          jobs' = [jobs EXCEPT ![id].status = "failed",
                               ![id].output = [NoOutput EXCEPT !.error = e]]
    /\ UNCHANGED <<nextJob, srvRoom, srvProject>>
    /\ lastEvent' = "none"
    /\ UNCHANGED chatVars
    /\ UNCHANGED lifeVars
    /\ UNCHANGED <<pollVars, wsVars, projVars, toast, downloads, dispatched, terminalSeen>>

\* ------------------------------------------------- WorkspacePage: handlers
\* fetchRoom resolved (WorkspacePage.jsx:75-100), with the continuation of line 124
FetchRoomOk(k) ==
    /\ mounted
    /\ roomFetches[k] > 0
    /\ roomFetches' = [roomFetches EXCEPT ![k] = @ - 1]
    /\ room' = srvRoom
    /\ generatedImages' =
          IF Len(srvRoom.approved2dImageUrls) > 0
          THEN Dedup(generatedImages \o srvRoom.approved2dImageUrls)
          ELSE generatedImages
    /\ activeTab' = IF srvRoom.has3d THEN "3d" ELSE activeTab
    /\ roomLoading' = FALSE
    /\ IF k # 0
       THEN /\ downloads' = [downloads EXCEPT ![k] =
                                IF StartsDownload(srvRoom) THEN @ + 1 ELSE @]
            /\ toast' = IF PerformDownload(srvRoom) = "unavailable"
                        THEN "Spec content is unavailable" ELSE toast
       ELSE UNCHANGED <<downloads, toast>>
    /\ lastEvent' = "none"
    /\ UNCHANGED chatVars
    /\ UNCHANGED lifeVars
    /\ UNCHANGED <<srvVars, pollVars, projVars, pipelineStatus, threeProgress,
                   pendingDownloadRef, submits, submitCount, msgFetches, clock,
                   dispatched, terminalSeen>>

FetchRoomFail(k) ==
    /\ mounted
    /\ roomFetches[k] > 0
    /\ roomFetches' = [roomFetches EXCEPT ![k] = @ - 1]
    /\ toast' = "Failed to load room"
    /\ roomLoading' = FALSE
    /\ lastEvent' = "none"
    /\ UNCHANGED chatVars
    /\ UNCHANGED lifeVars
    /\ UNCHANGED <<srvVars, pollVars, projVars, pipelineStatus, threeProgress, activeTab,
                   generatedImages, pendingDownloadRef, room, submits, submitCount,
                   msgFetches, clock, downloads, dispatched, terminalSeen>>

\* no approval made yet: PUT requests in flight (each with the `current` its
\* call captured), requests sent, URLs they were sent for, the body of the
\* last one, requests that failed
NoApprovals ==
    [inflight |-> {}, sent |-> 0, requested |-> {}, lastBody |-> <<>>, failed |-> 0]

\* The Like button on one of the images shown: handleApproveImage up to its
\* await (WorkspacePage.jsx:160-166). `current` is read from the room of the
\* render the handler was created in; an image already in it sends nothing.
HandleApproveImage ==
    /\ mounted
    /\ ~roomLoading
    /\ \E imageUrl \in Range(generatedImages) :
       LET current == room.approved2dImageUrls
       IN /\ imageUrl \notin Range(current)
          /\ approve.sent < MaxPuts
          /\ [url |-> imageUrl, current |-> current] \notin approve.inflight
          /\ approve' = [approve EXCEPT
                            !.inflight = @ \cup {[url |-> imageUrl, current |-> current]},
                            !.sent = @ + 1,
                            !.requested = @ \cup {imageUrl},
                            !.lastBody = Append(current, imageUrl)]
    /\ lastEvent' = "none"
    /\ UNCHANGED <<srvVars, pollVars, wsVars, projVars, chatVars, toast, downloads,
                   dispatched, terminalSeen>>
    /\ UNCHANGED <<mounted, timeNow, lateUpdates, fetchFailed, stream2>>

\* the PUT resolves: the server has stored the body; setRoom and the toast
\* (WorkspacePage.jsx:167-171)
ApprovePutOk ==
    /\ mounted
    /\ \E a \in approve.inflight :
          /\ approve' = [approve EXCEPT !.inflight = @ \ {a}]
          /\ srvRoom' = [srvRoom EXCEPT !.approved2dImageUrls = Append(a.current, a.url)]
          /\ room' = [room EXCEPT !.approved2dImageUrls = Append(a.current, a.url)]
    /\ toast' = "Image approved!"
    /\ lastEvent' = "none"
    /\ UNCHANGED <<jobs, nextJob, srvProject, pollVars, projVars, chatVars, downloads,
                   dispatched, terminalSeen, pipelineStatus, threeProgress, activeTab,
                   generatedImages, pendingDownloadRef, roomLoading, submits, submitCount,
                   roomFetches, msgFetches, clock>>
    /\ UNCHANGED <<mounted, timeNow, lateUpdates, fetchFailed, stream2>>

\* the PUT rejects: the catch (WorkspacePage.jsx:172-174)
ApprovePutFail ==
    /\ mounted
    /\ \E a \in approve.inflight :
          approve' = [approve EXCEPT !.inflight = @ \ {a}, !.failed = @ + 1]
    /\ toast' = "Failed to approve image"
    /\ lastEvent' = "none"
    /\ UNCHANGED <<srvVars, pollVars, wsVars, projVars, chatVars, downloads, dispatched,
                   terminalSeen>>
    /\ UNCHANGED <<mounted, timeNow, lateUpdates, fetchFailed, stream2>>

\* the tab buttons (WorkspacePage.jsx:298-317)
SetActiveTab(t) ==
    /\ mounted
    /\ ~roomLoading
    /\ activeTab # t
    /\ activeTab' = t
    /\ lastEvent' = "none"
    /\ UNCHANGED chatVars
    /\ UNCHANGED lifeVars
    /\ UNCHANGED <<srvVars, pollVars, projVars, pipelineStatus, threeProgress,
                   generatedImages, pendingDownloadRef, room, roomLoading, submits,
                   submitCount, roomFetches, msgFetches, clock, toast, downloads,
                   dispatched, terminalSeen>>

\* a handler up to its await of the POST
BeginSubmit(req, status) ==
    /\ mounted
    /\ submitCount < MaxJobs
    /\ submitCount' = submitCount + 1
    /\ pipelineStatus' = status
    /\ submits' = [submits EXCEPT ![req] = @ + 1]
    /\ lastEvent' = "none"
    /\ UNCHANGED chatVars
    /\ UNCHANGED lifeVars
    /\ UNCHANGED <<srvVars, pollVars, projVars, threeProgress, activeTab, generatedImages,
                   room, roomLoading, roomFetches, msgFetches, clock, toast, downloads,
                   dispatched, terminalSeen>>

\* handleRegenerate (WorkspacePage.jsx:184-188); the button of ImageViewer
\* is rendered whenever the images tab shows at least one image
HandleRegenerate ==
    /\ ~roomLoading
    /\ activeTab = "images"
    /\ Len(generatedImages) > 0
    /\ BeginSubmit([kind |-> "2d", model |-> NULL], "generating_2d")
    /\ UNCHANGED pendingDownloadRef

\* handleDownloadSpec (WorkspacePage.jsx:220-229)
HandleDownloadSpec ==
    /\ mounted
    /\ ~roomLoading
    /\ approvedCount > 0
    /\ pipelineStatus = NULL
    /\ IF room.artifactUrl # NULL
       THEN /\ toast' = IF PerformDownload(room) = "unavailable"
                        THEN "Spec content is unavailable" ELSE toast
            /\ lastEvent' = "none"
            /\ UNCHANGED chatVars
            /\ UNCHANGED lifeVars
            /\ UNCHANGED <<srvVars, pollVars, projVars, wsVars, downloads, dispatched,
                           terminalSeen>>
       ELSE /\ pendingDownloadRef' = TRUE
            /\ BeginSubmit([kind |-> "artifact", model |-> NULL], "generating_artifact")

\* handleGenerate3D (WorkspacePage.jsx:237-240)
HandleGenerate3D(model) ==
    /\ ~roomLoading
    /\ hasArtifact
    /\ pipelineStatus = NULL
    /\ BeginSubmit([kind |-> "3d", model |-> model], "generating_3d")
    /\ UNCHANGED pendingDownloadRef

\* the POST resolved: the server created the job; the handler continues
\* (WorkspacePage.jsx:188, 229, 241-246) and usePollJob's effect runs
SubmitOk(req) ==
    /\ mounted
    /\ submits[req] > 0
    /\ nextJob <= MaxJobs
    /\ submits' = [submits EXCEPT ![req] = @ - 1]
    /\ jobs' = [jobs EXCEPT ![nextJob] =
                   [type |-> JobTypeOf(req.kind), status |-> "pending", output |-> NoOutput]]
    /\ nextJob' = nextJob + 1
    /\ jobId' = [jobId EXCEPT !["room"] = nextJob]
    /\ threeProgress' =
          IF req.kind = "3d"
          THEN [model |-> req.model, startedAt |-> clock,
                estimatedMs |-> THREE_MODEL_ESTIMATE_MS[req.model]]
          ELSE threeProgress
    /\ SetPollCtx(JobIdEffect(PollCtx, "room", activeJobId, nextJob))
    /\ lastEvent' = "none"
    /\ UNCHANGED chatVars
    /\ UNCHANGED lifeVars
    /\ UNCHANGED <<srvRoom, srvProject, job, projVars, pipelineStatus, activeTab,
                   generatedImages, pendingDownloadRef, room, roomLoading, submitCount,
                   roomFetches, msgFetches, clock, toast, downloads, dispatched,
                   terminalSeen>>

\* catch blocks that forget setPipelineStatus(null)
SubmitFailKeepsStatus(req) ==
    /\ mounted
    /\ submits[req] > 0
    /\ submits' = [submits EXCEPT ![req] = @ - 1]
    /\ toast' = CASE req.kind = "2d" -> "Failed to regenerate"
                  [] req.kind = "artifact" -> "Failed to generate spec"
                  [] req.kind = "3d" -> "Failed to start 3D generation"
    /\ pendingDownloadRef' = IF req.kind = "artifact" THEN FALSE ELSE pendingDownloadRef
    /\ threeProgress' = IF req.kind = "3d" THEN NoProgress ELSE threeProgress
    /\ lastEvent' = "submit_failed"
    /\ UNCHANGED chatVars
    /\ UNCHANGED lifeVars
    /\ UNCHANGED <<srvVars, pollVars, projVars, pipelineStatus, activeTab, generatedImages,
                   room, roomLoading, submitCount, roomFetches, msgFetches, clock,
                   downloads, dispatched, terminalSeen>>

\* the POST failed: the catch blocks (WorkspacePage.jsx:189-192, 230-234, 247-251)
SubmitFail(req) ==
    /\ mounted
    /\ submits[req] > 0
    /\ submits' = [submits EXCEPT ![req] = @ - 1]
    /\ toast' = CASE req.kind = "2d" -> "Failed to regenerate"
                  [] req.kind = "artifact" -> "Failed to generate spec"
                  [] req.kind = "3d" -> "Failed to start 3D generation"
    /\ pipelineStatus' = NULL
    /\ pendingDownloadRef' = IF req.kind = "artifact" THEN FALSE ELSE pendingDownloadRef
    /\ threeProgress' = IF req.kind = "3d" THEN NoProgress ELSE threeProgress
    /\ lastEvent' = "submit_failed"
    /\ UNCHANGED chatVars
    /\ UNCHANGED lifeVars
    /\ UNCHANGED <<srvVars, pollVars, projVars, activeTab, generatedImages, room,
                   roomLoading, submitCount, roomFetches, msgFetches, clock, downloads,
                   dispatched, terminalSeen>>

\* ------------------------------------------------------ usePollJob: events
\* the interval fires: poll() (useRooms.js:76-78, 93)
Tick(s) ==
    \E t \in timers :
       /\ t.slot = s
       /\ statusReqs[s][t.id] < MaxInflight
       /\ SetPollCtx(IssuePoll(PollCtx, s, t.id))
       /\ lastEvent' = "none"
       /\ UNCHANGED chatVars
       /\ UNCHANGED lifeVars
       /\ UNCHANGED <<srvVars, jobId, job, wsVars, projVars, toast, downloads,
                      dispatched, terminalSeen>>

\* a catch of poll() that leaves the interval running
StatusErrorKeepsPolling(s, id) ==
    /\ mounted
    /\ statusReqs[s][id] > 0
    /\ SetPollCtx([PollCtx EXCEPT !.statusReqs[s][id] = @ - 1])
    /\ lastEvent' = "poll_failed"
    /\ fetchFailed' = fetchFailed \cup {id}
    /\ UNCHANGED <<stream2, approve>>
    /\ UNCHANGED chatVars
    /\ UNCHANGED <<mounted, timeNow, lateUpdates>>
    /\ UNCHANGED <<srvVars, jobId, job, wsVars, projVars, toast, downloads,
                   dispatched, terminalSeen>>

\* a status request fails: the catch of poll() (useRooms.js:87-89)
StatusError(s, id) ==
    /\ mounted
    /\ statusReqs[s][id] > 0
    /\ SetPollCtx(StopPolling([PollCtx EXCEPT !.statusReqs[s][id] = @ - 1], s))
    /\ lastEvent' = "poll_failed"
    /\ fetchFailed' = fetchFailed \cup {id}
    /\ UNCHANGED <<stream2, approve>>
    /\ UNCHANGED chatVars
    /\ UNCHANGED <<mounted, timeNow, lateUpdates>>
    /\ UNCHANGED <<srvVars, jobId, job, wsVars, projVars, toast, downloads,
                   dispatched, terminalSeen>>

\* a status request of the workspace's poller resolves (useRooms.js:78-86); the
\* new snapshot re-renders WorkspacePage, its dispatch effect runs
\* (WorkspacePage.jsx:110-139), and then usePollJob's effect for the new jobId
RoomStatusResponse(id) ==
    /\ mounted
    /\ statusReqs["room"][id] > 0
    /\ LET snap == Snapshot(id)
           c0 == [PollCtx EXCEPT !.statusReqs["room"][id] = @ - 1]
           c1 == IF IsTerminal(snap.status) THEN StopPolling(c0, "room") ELSE c0
           w == DispatchEffect(WsCtx, snap)
       IN /\ job' = [job EXCEPT !["room"] = snap]
          /\ SetWsCtx(w)
          /\ jobId' = [jobId EXCEPT !["room"] = w.activeJobId]
          /\ SetPollCtx(JobIdEffect(c1, "room", activeJobId, w.activeJobId))
          /\ terminalSeen' = IF IsTerminal(snap.status)
                             THEN terminalSeen \cup {id} ELSE terminalSeen
          /\ lastEvent' = IF snap.status = "failed" THEN "job_failed" ELSE "none"
          /\ UNCHANGED chatVars
          /\ UNCHANGED lifeVars
    /\ UNCHANGED <<srvVars, projVars, room, roomLoading, submits, submitCount, clock,
                   downloads>>

\* ------------------------------------------------------------ ProjectPage
\* project.regulatory.zoning / .technicalInfo as the server stores it
NoReport == [present |-> FALSE, reportPdfUrl |-> NULL, reportPdfBase64 |-> FALSE]

\* what a completed report job may leave in the project document
ReportChoices(s) ==
    {[present |-> TRUE, reportPdfUrl |-> "https://cdn/report.pdf", reportPdfBase64 |-> FALSE],
     [present |-> TRUE,
      reportPdfUrl |-> IF s = "zoning" THEN "zoning://report" ELSE "technical-info://report",
      reportPdfBase64 |-> TRUE],
     [present |-> TRUE, reportPdfUrl |-> NULL, reportPdfBase64 |-> TRUE],
     [present |-> TRUE, reportPdfUrl |-> NULL, reportPdfBase64 |-> FALSE]}

InternalScheme(s) == IF s = "zoning" THEN "zoning://report" ELSE "technical-info://report"

\* a download helper without the test for the internal URL scheme
DownloadPdfAnyUrl(s, report) ==
    IF ~report.present THEN "none"
    ELSE IF report.reportPdfUrl # NULL THEN "url"
    ELSE IF ~report.reportPdfBase64 THEN "none"
    ELSE "base64"

\* downloadZoningPdf / downloadTechnicalInfoPdf (ProjectPage.jsx:202-278):
\* "url", "base64", or "none" when nothing is downloaded
DownloadPdf(s, report) ==
    IF ~report.present THEN "none"
    ELSE IF report.reportPdfUrl # NULL /\ report.reportPdfUrl # InternalScheme(s) THEN "url"
    ELSE IF ~report.reportPdfBase64 THEN "none"
    ELSE "base64"

ReportLabel(s) == IF s = "zoning" THEN "Zoning" ELSE "Technical info"

ProjCtx(s) ==
    [busy |-> busy, jobId |-> jobId[s], projectFetches |-> projectFetches,
     toast |-> toast, dispatched |-> dispatched]

\* the two dispatch effects (ProjectPage.jsx:290-320), up to the first await
ProjectDispatch(w, s, a) ==
    IF a.status = "completed" /\ a.type = JobTypeOf(s)
    THEN [w EXCEPT !.busy[s] = FALSE,
                   !.jobId = NoId,
                   !.projectFetches[s][a.id] = @ + 1,
                   !.dispatched[a.id] = @ + 1]
    ELSE IF a.status = "failed"
    THEN [w EXCEPT !.busy[s] = FALSE,
                   !.jobId = NoId,
                   !.toast = IF a.output.error # NULL THEN a.output.error
                             ELSE IF s = "zoning" THEN "Failed to create zoning report"
                             ELSE "Failed to create technical info report",
                   !.dispatched[a.id] = @ + 1]
    ELSE w

\* handleGenerateProjectZoning / handleGenerateProjectTechnicalInfo
\* (ProjectPage.jsx:358-382), up to the await of the POST; both buttons are
\* disabled while either report is busy (lines 527, 544)
HandleGenerateReport(s) ==
    /\ mounted
    /\ \A r \in ReportSlots : ~busy[r]
    /\ submitCount < MaxJobs
    /\ submitCount' = submitCount + 1
    /\ busy' = [busy EXCEPT ![s] = TRUE]
    /\ submits' = [submits EXCEPT ![[kind |-> s, model |-> NULL]] = @ + 1]
    /\ lastEvent' = "none"
    /\ UNCHANGED chatVars
    /\ UNCHANGED lifeVars
    /\ UNCHANGED <<srvVars, pollVars, projectFetches, pipelineStatus, threeProgress,
                   activeTab, generatedImages, pendingDownloadRef, room, roomLoading,
                   roomFetches, msgFetches, clock, toast, downloads, dispatched,
                   terminalSeen>>

ReportSubmitOk(s) ==
    /\ mounted
    /\ submits[[kind |-> s, model |-> NULL]] > 0
    /\ nextJob <= MaxJobs
    /\ submits' = [submits EXCEPT ![[kind |-> s, model |-> NULL]] = @ - 1]
    /\ jobs' = [jobs EXCEPT ![nextJob] =
                   [type |-> JobTypeOf(s), status |-> "pending", output |-> NoOutput]]
    /\ nextJob' = nextJob + 1
    /\ jobId' = [jobId EXCEPT ![s] = nextJob]
    /\ SetPollCtx(JobIdEffect(PollCtx, s, jobId[s], nextJob))
    /\ lastEvent' = "none"
    /\ UNCHANGED chatVars
    /\ UNCHANGED lifeVars
    /\ UNCHANGED <<srvRoom, srvProject, job, projVars, pipelineStatus, threeProgress,
                   activeTab, generatedImages, pendingDownloadRef, room, roomLoading,
                   submitCount, roomFetches, msgFetches, clock, toast, downloads,
                   dispatched, terminalSeen>>

ReportSubmitFail(s) ==
    /\ mounted
    /\ submits[[kind |-> s, model |-> NULL]] > 0
    /\ submits' = [submits EXCEPT ![[kind |-> s, model |-> NULL]] = @ - 1]
    /\ busy' = [busy EXCEPT ![s] = FALSE]
    /\ toast' = IF s = "zoning" THEN "Failed to start zoning report generation"
                ELSE "Failed to start technical info report generation"
    /\ lastEvent' = "submit_failed"
    /\ UNCHANGED chatVars
    /\ UNCHANGED lifeVars
    /\ UNCHANGED <<srvVars, pollVars, projectFetches, pipelineStatus, threeProgress,
                   activeTab, generatedImages, pendingDownloadRef, room, roomLoading,
                   submitCount, roomFetches, msgFetches, clock, downloads, dispatched,
                   terminalSeen>>

\* a status request of a report poller resolves; the dispatch effect of its
\* page state runs, then usePollJob's effect for the new job id
ReportStatusResponse(s, id) ==
    /\ mounted
    /\ statusReqs[s][id] > 0
    /\ LET snap == Snapshot(id)
           c0 == [PollCtx EXCEPT !.statusReqs[s][id] = @ - 1]
           c1 == IF IsTerminal(snap.status) THEN StopPolling(c0, s) ELSE c0
           w == ProjectDispatch(ProjCtx(s), s, snap)
       IN /\ job' = [job EXCEPT ![s] = snap]
          /\ busy' = w.busy
          /\ projectFetches' = w.projectFetches
          /\ toast' = w.toast
          /\ dispatched' = w.dispatched
          /\ jobId' = [jobId EXCEPT ![s] = w.jobId]
          /\ SetPollCtx(JobIdEffect(c1, s, jobId[s], w.jobId))
          /\ terminalSeen' = IF IsTerminal(snap.status)
                             THEN terminalSeen \cup {id} ELSE terminalSeen
          /\ lastEvent' = IF snap.status = "failed" THEN "job_failed" ELSE "none"
          /\ UNCHANGED chatVars
          /\ UNCHANGED lifeVars
    /\ UNCHANGED <<srvVars, wsVars, downloads>>

\* the continuation of the completed branch: fetchProject settled (ok or not),
\* then the PDF download and the success toast (ProjectPage.jsx:295-297, 311-313)
ProjectFetchDone(s, id, ok) ==
    /\ projectFetches[s][id] > 0
    /\ projectFetches' = [projectFetches EXCEPT ![s][id] = @ - 1]
    /\ LET report == IF ok THEN srvProject[s] ELSE NoReport
           didDownload == DownloadPdf(s, report) # "none"
       IN /\ downloads' = [downloads EXCEPT ![id] = IF didDownload THEN @ + 1 ELSE @]
          /\ toast' = IF didDownload
                      THEN IF s = "zoning"
                           THEN "Zoning report created. PDF download started."
                           ELSE "Technical info report created. PDF download started."
                      ELSE IF s = "zoning" THEN "Zoning report created"
                           ELSE "Technical info report created"
          /\ lastEvent' = CASE DownloadPdf(s, report) = "url" -> "download_url"
                             [] DownloadPdf(s, report) = "base64" -> "download_base64"
                             [] OTHER -> "none"
    /\ UNCHANGED chatVars
    /\ UNCHANGED lifeVars
    /\ UNCHANGED <<srvVars, pollVars, wsVars, busy, dispatched, terminalSeen>>

\* the job runner completes a report job and stores the report in the project
ServerCompleteReport(id) ==
    /\ jobs[id].status = "processing"
    /\ \E s \in ReportSlots :
          /\ jobs[id].type = JobTypeOf(s)
          /\ \E rep \in ReportChoices(s) : srvProject' = [srvProject EXCEPT ![s] = rep]
    /\ jobs' = [jobs EXCEPT ![id].status = "completed"]
    /\ lastEvent' = "none"
    /\ UNCHANGED chatVars
    /\ UNCHANGED lifeVars
    /\ UNCHANGED <<nextJob, srvRoom, pollVars, wsVars, projVars, toast, downloads,
                   dispatched, terminalSeen>>

\* ------------------------------------------------------ useChat: frames
\* Text is a sequence of one-character strings.
NL == "\n"
QUOTE == "\""
BACKSLASH == "\\"

DataPrefix == <<"d", "a", "t", "a", ":", " ">>
K_text == <<"t", "e", "x", "t">>
K_messageId == <<"m", "e", "s", "s", "a", "g", "e", "I", "d">>
K_action == <<"a", "c", "t", "i", "o", "n">>
K_type == <<"t", "y", "p", "e">>
K_jobId == <<"j", "o", "b", "I", "d">>

\* JSON values: strings and objects (a sequence of key/value members)
StrVal(cs) == [kind |-> "str", str |-> cs, members |-> <<>>]
ObjVal(ms) == [kind |-> "obj", str |-> <<>>, members |-> ms]
Member(k, v) == [key |-> k, val |-> v]
Undefined == [kind |-> "undefined", str |-> <<>>, members |-> <<>>]
\* a payload the server writes as is: characters that are not a JSON text
RawFrame(cs) == [kind |-> "raw", str |-> cs, members |-> <<>>]

ParseFail == [ok |-> FALSE, val |-> Undefined, rest |-> <<>>]

\* the characters of a JSON string after its opening quote
RECURSIVE ParseStr(_, _)
ParseStr(s, acc) ==
    IF s = <<>> THEN ParseFail
    ELSE IF s[1] = QUOTE THEN [ok |-> TRUE, val |-> StrVal(acc), rest |-> Tail(s)]
    ELSE IF s[1] = NL THEN ParseFail
    ELSE IF s[1] = BACKSLASH
         THEN IF Len(s) < 2 THEN ParseFail
              ELSE IF s[2] = "n" THEN ParseStr(SubSeq(s, 3, Len(s)), Append(acc, NL))
              ELSE IF s[2] \in {QUOTE, BACKSLASH}
                   THEN ParseStr(SubSeq(s, 3, Len(s)), Append(acc, s[2]))
              ELSE ParseFail
    ELSE ParseStr(Tail(s), Append(acc, s[1]))

RECURSIVE ParseValue(_), ParseMembers(_, _, _)
ParseValue(s) ==
    IF s = <<>> THEN ParseFail
    ELSE IF s[1] = QUOTE THEN ParseStr(Tail(s), <<>>)
    ELSE IF s[1] = "{" THEN ParseMembers(Tail(s), <<>>, TRUE)
    ELSE ParseFail

\* the members of an object after its "{" (first) or after a ","
ParseMembers(s, acc, first) ==
    IF s = <<>> THEN ParseFail
    ELSE IF first /\ s[1] = "}" THEN [ok |-> TRUE, val |-> ObjVal(acc), rest |-> Tail(s)]
    ELSE IF s[1] # QUOTE THEN ParseFail
    ELSE LET k == ParseStr(Tail(s), <<>>)
         IN IF ~k.ok \/ k.rest = <<>> \/ k.rest[1] # ":" THEN ParseFail
            ELSE LET v == ParseValue(Tail(k.rest))
                 IN IF ~v.ok \/ v.rest = <<>> THEN ParseFail
                    ELSE LET acc1 == Append(acc, Member(k.val.str, v.val))
                         IN IF v.rest[1] = "}"
                            THEN [ok |-> TRUE, val |-> ObjVal(acc1), rest |-> Tail(v.rest)]
                            ELSE IF v.rest[1] = ","
                            THEN ParseMembers(Tail(v.rest), acc1, FALSE)
                            ELSE ParseFail

\* a parser that accepts a value followed by anything
JSONparsePrefix(s) == ParseValue(s)

\* JSON.parse(text): ok is FALSE where it throws
JSONparse(s) ==
    LET r == ParseValue(s)
    IN IF r.ok /\ r.rest = <<>> THEN r ELSE ParseFail

\* payload.key (the last member of that name; Undefined when absent)
RECURSIVE Get(_, _)
Get(v, k) ==
    IF v.kind # "obj" \/ v.members = <<>> THEN Undefined
    ELSE LET last == v.members[Len(v.members)]
         IN IF last.key = k THEN last.val
            ELSE Get(ObjVal(SubSeq(v.members, 1, Len(v.members) - 1)), k)

\* if (x): an absent member and the empty string are falsy
Truthy(v) == v.kind = "obj" \/ (v.kind = "str" /\ v.str # <<>>)

\* the text of a string value as the + operator sees it
TextOf(v) == IF v.kind = "str" THEN v.str ELSE <<>>

\* JSON.stringify, as the server writes a frame's payload
RECURSIVE EncodeChars(_)
EncodeChars(cs) ==
    IF cs = <<>> THEN <<>>
    ELSE (IF cs[1] = NL THEN <<BACKSLASH, "n">>
          ELSE IF cs[1] \in {QUOTE, BACKSLASH} THEN <<BACKSLASH, cs[1]>>
          ELSE <<cs[1]>>) \o EncodeChars(Tail(cs))

RECURSIVE EncodeValue(_), EncodeMembers(_)
EncodeValue(v) ==
    IF v.kind = "raw" THEN v.str
    ELSE IF v.kind = "str" THEN <<QUOTE>> \o EncodeChars(v.str) \o <<QUOTE>>
    ELSE <<"{">> \o EncodeMembers(v.members) \o <<"}">>

EncodeMembers(ms) ==
    IF ms = <<>> THEN <<>>
    ELSE <<QUOTE>> \o EncodeChars(ms[1].key) \o <<QUOTE, ":">> \o EncodeValue(ms[1].val)
         \o (IF Len(ms) > 1 THEN <<",">> \o EncodeMembers(Tail(ms)) ELSE <<>>)

\* one frame on the wire: data: <json>\n
EncodeFrame(v) == DataPrefix \o EncodeValue(v) \o <<NL>>

RECURSIVE EncodeFrames(_)
EncodeFrames(fs) ==
    IF fs = <<>> THEN <<>> ELSE EncodeFrame(fs[1]) \o EncodeFrames(Tail(fs))

\* buffer.split('\n'): the segments between newlines (at least one)
NewlineAt(buf) == {i \in 1..Len(buf) : buf[i] = NL}

SplitLines(buf) ==
    LET nl == NewlineAt(buf)
        n == Cardinality(nl)
        \* the position of the k-th newline; 0 before the first, Len + 1 after the last
        Cut(k) == IF k = 0 THEN 0
                  ELSE IF k > n THEN Len(buf) + 1
                  ELSE CHOOSE p \in nl : Cardinality({q \in nl : q < p}) = k - 1
    IN [k \in 1..(n + 1) |-> SubSeq(buf, Cut(k - 1) + 1, Cut(k) - 1)]

\* a consumer that starts every read with an empty buffer
HeldBackDropped(lines) == <<>>

\* lines.pop() || '': the last segment, held back for the next read
HeldBack(lines) == lines[Len(lines)]
\* what is left in lines after the pop
CompleteLines(lines) == SubSeq(lines, 1, Len(lines) - 1)

StartsWith(line, prefix) ==
    Len(line) >= Len(prefix) /\ SubSeq(line, 1, Len(prefix)) = prefix

\* line.slice(6)
Slice6(line) == SubSeq(line, 7, Len(line))

\* ------------------------------------------------- useChat: sendMessage
Digit(n) == <<"0", "1", "2", "3", "4", "5", "6", "7", "8", "9">>[n + 1]
DigitVal(c) == CHOOSE n \in 0..9 : Digit(n) = c

\* `temp-${Date.now()}` and `temp-assistant-${Date.now()}` (useChat.js:30, 39)
TempUserId(t) == <<"t", "e", "m", "p", "-", Digit(t)>>
TempAssistantId(t) ==
    <<"t", "e", "m", "p", "-", "a", "s", "s", "i", "s", "t", "a", "n", "t", "-", Digit(t)>>

Message(id, role, content) ==
    [id |-> id, role |-> role, content |-> content, imageUrls |-> <<>>]

\* a sendMessage call that has not been made
NoStream ==
    [pc |-> "none", wire |-> <<>>, buffer |-> <<>>, userId |-> <<>>, assistantId |-> <<>>,
     pos |-> 0, frames |-> <<>>, cut |-> FALSE]

\* an updater that appends the delta to every assistant entry
ApplyTextEvery(prev, text) ==
    [i \in 1..Len(prev) |->
        IF prev[i].role = "assistant" THEN [prev[i] EXCEPT !.content = @ \o text]
        ELSE prev[i]]

\* the updater of useChat.js:80-90
ApplyText(prev, text) ==
    IF prev = <<>> THEN prev
    ELSE LET last == prev[Len(prev)]
         IN IF last.role = "assistant"
            THEN [prev EXCEPT ![Len(prev)] = [last EXCEPT !.content = @ \o text]]
            ELSE prev

\* a rebind that rebuilds the entry instead of spreading the old one
ApplyMessageIdFresh(prev, id) ==
    IF prev = <<>> THEN prev
    ELSE LET last == prev[Len(prev)]
         IN IF last.role = "assistant"
            THEN [prev EXCEPT ![Len(prev)] = Message(id, "assistant", <<>>)]
            ELSE prev

\* the updater of useChat.js:94-101
ApplyMessageId(prev, id) ==
    IF prev = <<>> THEN prev
    ELSE LET last == prev[Len(prev)]
         IN IF last.role = "assistant"
            THEN [prev EXCEPT ![Len(prev)] = [last EXCEPT !.id = id]]
            ELSE prev

ImageType == <<"i", "m", "a", "g", "e", "_", "2", "d">>

\* what the frame loop reads and writes
ChatCtx == [messages |-> messages, toast |-> toast, noticed |-> noticed]

\* the body of the for loop (useChat.js:75-110)
ProcessLine(c, line) ==
    IF ~StartsWith(line, DataPrefix) THEN c
    ELSE LET r == JSONparse(Slice6(line))
             payload == r.val
             text == Get(payload, K_text)
             messageId == Get(payload, K_messageId)
             action == Get(payload, K_action)
             c1 == IF Truthy(text)
                   THEN [c EXCEPT !.messages = ApplyText(@, TextOf(text))] ELSE c
             c2 == IF Truthy(messageId)
                   THEN [c1 EXCEPT !.messages = ApplyMessageId(@, TextOf(messageId))] ELSE c1
             c3 == IF Truthy(action)
                   THEN [c2 EXCEPT
                           !.toast = IF TextOf(Get(action, K_type)) = ImageType
                                     THEN "Generating image_2d..." ELSE "Generating ...",
                           !.noticed = IF Len(TextOf(Get(action, K_jobId))) = 1
                                       THEN @ \cup {DigitVal(TextOf(Get(action, K_jobId))[1])}
                                       ELSE @]
                   ELSE c2
         IN IF r.ok THEN c3 ELSE c

RECURSIVE ProcessLines(_, _)
ProcessLines(c, lines) ==
    IF lines = <<>> THEN c
    ELSE ProcessLines(ProcessLine(c, lines[1]), Tail(lines))

\* prev.filter((m) => m.id !== id)
RECURSIVE WithoutId(_, _)
WithoutId(prev, id) ==
    IF prev = <<>> THEN <<>>
    ELSE (IF prev[1].id # id THEN <<prev[1]>> ELSE <<>>) \o WithoutId(Tail(prev), id)

\* the payloads the server may send in a reply
TextFrame(cs) == ObjVal(<<Member(K_text, StrVal(cs))>>)
RebindFrame(id) == ObjVal(<<Member(K_messageId, StrVal(id))>>)
ActionFrame(type, jid) ==
    ObjVal(<<Member(K_action,
                    ObjVal(<<Member(K_type, StrVal(type)), Member(K_jobId, StrVal(jid))>>))>>)

FrameChoices ==
    {TextFrame(<<"H", "e">>), TextFrame(<<"l", "l", "o">>), TextFrame(<<NL, QUOTE>>),
     RebindFrame(<<"m", "1">>), ActionFrame(ImageType, <<"1">>)}

RECURSIVE Replies(_)
Replies(n) ==
    IF n = 0 THEN {<<>>}
    ELSE Replies(n - 1) \cup
         {Append(r, f) : r \in {q \in Replies(n - 1) : Len(q) = n - 1}, f \in FrameChoices}

\* sendMessage up to its first await (useChat.js:26-49); ChatInput is disabled
\* while streaming, so calls do not overlap and `stream` holds the locals of the
\* latest one
SendMessage(content) ==
    /\ ~streaming
    /\ nSends < MaxSends
    /\ content # <<>>
    /\ nSends' = nSends + 1
    /\ messages' = messages \o <<Message(TempUserId(clock), "user", content),
                                 Message(TempAssistantId(clock), "assistant", <<>>)>>
    /\ streaming' = TRUE
    /\ stream' = [NoStream EXCEPT !.pc = "request",
                                  !.userId = TempUserId(clock),
                                  !.assistantId = TempAssistantId(clock),
                                  !.pos = Len(messages) + 2]
    /\ clock' = clock + 1
    /\ UNCHANGED <<srvVars, pollVars, projVars, obsVars, framesSent, noticed,
                   pipelineStatus, threeProgress, activeTab, generatedImages,
                   pendingDownloadRef, room, roomLoading, submits, submitCount,
                   roomFetches, msgFetches>>
    /\ UNCHANGED lifeVars

\* catch and finally (useChat.js:113-118)
Catch(message) ==
    /\ toast' = message
    /\ messages' = WithoutId(messages, stream.assistantId)
    /\ streaming' = FALSE
    /\ stream' = [stream EXCEPT !.pc = "failed", !.wire = <<>>, !.buffer = <<>>,
                                !.frames = <<>>]
    /\ UNCHANGED <<srvVars, pollVars, wsVars, projVars, nSends, framesSent, noticed,
                   downloads, dispatched, terminalSeen, lastEvent>>
    /\ UNCHANGED lifeVars

\* getIdToken or fetch rejects, or the response is not ok (useChat.js:49-60)
RequestFails(message) ==
    /\ stream.pc = "request"
    /\ Catch(message)

\* the response arrives with status ok; the server will stream `reply`
ResponseOk(reply) ==
    /\ stream.pc = "request"
    /\ Len(reply) <= MaxFrames - framesSent
    /\ stream' = [stream EXCEPT !.pc = "reading",
                                !.wire = EncodeFrames(reply),
                                !.frames = reply]
    /\ framesSent' = framesSent + Len(reply)
    /\ UNCHANGED <<srvVars, pollVars, wsVars, projVars, obsVars, messages, streaming,
                   nSends, noticed>>
    /\ UNCHANGED lifeVars

\* reader.read() yields a chunk, the next k characters of the reply, for any
\* k the network chooses (useChat.js:67-111)
ReadChunk ==
    /\ stream.pc = "reading"
    /\ \E k \in 1..Len(stream.wire) :
        LET value == SubSeq(stream.wire, 1, k)
            lines == SplitLines(stream.buffer \o value)
            c == ProcessLines(ChatCtx, CompleteLines(lines))
        IN /\ stream' = [stream EXCEPT
                             !.wire = SubSeq(@, k + 1, Len(@)),
                             !.buffer = HeldBack(lines),
                             !.cut = @ \/ (HeldBack(lines) # <<>>)]
           /\ messages' = c.messages
           /\ toast' = c.toast
           /\ noticed' = c.noticed
    /\ UNCHANGED <<srvVars, pollVars, wsVars, projVars, streaming, nSends, framesSent,
                   downloads, dispatched, terminalSeen, lastEvent>>
    /\ UNCHANGED lifeVars

\* reader.read() yields done: the loop ends, then finally (useChat.js:68, 116-118)
ReadDone ==
    /\ stream.pc = "reading"
    /\ stream.wire = <<>>
    /\ stream' = [stream EXCEPT !.pc = "done", !.buffer = <<>>]
    /\ streaming' = FALSE
    /\ UNCHANGED <<srvVars, pollVars, wsVars, projVars, obsVars, messages, nSends,
                   framesSent, noticed>>
    /\ UNCHANGED lifeVars

\* reader.read() rejects: the connection broke
ReadError ==
    /\ stream.pc = "reading"
    /\ Catch("network error")

\* The Dislike button of the image viewer (part_002:109-116): handleRejectImage
\* (WorkspacePage.jsx:177-182) prompts for feedback and calls sendMessage, which
\* runs up to its first await (useChat.js:26-49). Neither the button nor the
\* handler looks at `streaming`, so this call may overlap the one made from the
\* chat input; `stream2` holds its locals.
HandleRejectImage ==
    /\ mounted
    /\ generatedImages # <<>>
    /\ stream2.pc = "none"
    /\ messages' = messages \o <<Message(TempUserId(clock), "user", <<"n", "o">>),
                                 Message(TempAssistantId(clock), "assistant", <<>>)>>
    /\ streaming' = TRUE
    /\ stream2' = [NoStream EXCEPT !.pc = "request",
                                   !.userId = TempUserId(clock),
                                   !.assistantId = TempAssistantId(clock),
                                   !.pos = Len(messages) + 2]
    /\ clock' = clock + 1
    /\ UNCHANGED <<srvVars, pollVars, projVars, obsVars, stream, nSends, framesSent, noticed,
                   pipelineStatus, threeProgress, activeTab, generatedImages,
                   pendingDownloadRef, room, roomLoading, submits, submitCount,
                   roomFetches, msgFetches>>
    /\ UNCHANGED <<mounted, timeNow, lateUpdates, fetchFailed, approve>>

\* the response to the feedback message arrives with status ok
FeedbackResponseOk(reply) ==
    /\ stream2.pc = "request"
    /\ Len(reply) <= MaxFrames - framesSent
    /\ stream2' = [stream2 EXCEPT !.pc = "reading",
                                  !.wire = EncodeFrames(reply),
                                  !.frames = reply]
    /\ framesSent' = framesSent + Len(reply)
    /\ UNCHANGED <<srvVars, pollVars, wsVars, projVars, obsVars, messages, streaming,
                   stream, nSends, noticed>>
    /\ UNCHANGED <<mounted, timeNow, lateUpdates, fetchFailed, approve>>

\* reader.read() of the feedback call yields a chunk (useChat.js:67-111)
FeedbackReadChunk ==
    /\ stream2.pc = "reading"
    /\ \E k \in 1..Len(stream2.wire) :
        LET value == SubSeq(stream2.wire, 1, k)
            lines == SplitLines(stream2.buffer \o value)
            c == ProcessLines(ChatCtx, CompleteLines(lines))
        IN /\ stream2' = [stream2 EXCEPT
                              !.wire = SubSeq(@, k + 1, Len(@)),
                              !.buffer = HeldBack(lines),
                              !.cut = @ \/ (HeldBack(lines) # <<>>)]
           /\ messages' = c.messages
           /\ toast' = c.toast
           /\ noticed' = c.noticed
    /\ UNCHANGED <<srvVars, pollVars, wsVars, projVars, streaming, stream, nSends,
                   framesSent, downloads, dispatched, terminalSeen, lastEvent>>
    /\ UNCHANGED <<mounted, timeNow, lateUpdates, fetchFailed, approve>>

\* reader.read() of the feedback call yields done, then finally
\* (useChat.js:68, 116-118)
FeedbackReadDone ==
    /\ stream2.pc = "reading"
    /\ stream2.wire = <<>>
    /\ stream2' = [stream2 EXCEPT !.pc = "done", !.buffer = <<>>]
    /\ streaming' = FALSE
    /\ UNCHANGED <<srvVars, pollVars, wsVars, projVars, obsVars, messages, stream, nSends,
                   framesSent, noticed>>
    /\ UNCHANGED <<mounted, timeNow, lateUpdates, fetchFailed, approve>>

\* ------------------------------------------------------------ specification

\* ------------------------------------------------------ usePollJob: teardown
\* The page is unmounted: React runs the cleanup of each usePollJob effect,
\* which is stopPolling (useRooms.js:96-99 with 64-70). Requests in flight are
\* not aborted: poll() holds no AbortController and no mounted flag (76-90).
RECURSIVE StopAll(_, _)
StopAll(c, ss) ==
    IF ss = {} THEN c
    ELSE LET s == CHOOSE x \in ss : TRUE
         IN StopAll(StopPolling(c, s), ss \ {s})

Unmount ==
    /\ mounted
    /\ mounted' = FALSE
    /\ SetPollCtx(StopAll(PollCtx, Slots))
    /\ lastEvent' = "unmount"
    /\ UNCHANGED chatVars
    /\ UNCHANGED <<timeNow, lateUpdates>>
    /\ UNCHANGED extVars
    /\ UNCHANGED <<srvVars, jobId, job, wsVars, projVars, toast, downloads,
                   dispatched, terminalSeen>>

\* a status request that was in flight at unmount resolves: the rest of poll()
\* runs (useRooms.js:79-86): setJob(data.job), and for a terminal snapshot
\* stopPolling() with its setPolling(false). React drops the updates of an
\* unmounted component, so job and polling keep their values and no effect
\* runs; lateUpdates counts the setState calls made.
LateStatusResponse(s, id) ==
    /\ ~mounted
    /\ statusReqs[s][id] > 0
    /\ LET snap == Snapshot(id)
           c0 == [PollCtx EXCEPT !.statusReqs[s][id] = @ - 1]
           c1 == IF IsTerminal(snap.status) THEN StopPolling(c0, s) ELSE c0
       IN /\ SetPollCtx([c1 EXCEPT !.polling = polling])
          /\ lateUpdates' = lateUpdates + (IF IsTerminal(snap.status) THEN 2 ELSE 1)
    /\ lastEvent' = "late_response"
    /\ UNCHANGED chatVars
    /\ UNCHANGED <<mounted, timeNow>>
    /\ UNCHANGED extVars
    /\ UNCHANGED <<srvVars, jobId, job, wsVars, projVars, toast, downloads,
                   dispatched, terminalSeen>>

\* a status request that was in flight at unmount fails: the catch of poll()
\* calls stopPolling(), hence setPolling(false) (useRooms.js:87-89, 64-70)
LateStatusError(s, id) ==
    /\ ~mounted
    /\ statusReqs[s][id] > 0
    /\ SetPollCtx([StopPolling([PollCtx EXCEPT !.statusReqs[s][id] = @ - 1], s)
                     EXCEPT !.polling = polling])
    /\ lateUpdates' = lateUpdates + 1
    /\ lastEvent' = "late_error"
    /\ UNCHANGED chatVars
    /\ UNCHANGED <<mounted, timeNow>>
    /\ fetchFailed' = fetchFailed \cup {id}
    /\ UNCHANGED <<stream2, approve>>
    /\ UNCHANGED <<srvVars, jobId, job, wsVars, projVars, toast, downloads,
                   dispatched, terminalSeen>>

\* a submission that was in flight at unmount settles: the server may have
\* created the job; the page's state updates are dropped and no poller starts;
\* the catch block still shows its toast and resets pendingDownloadRef
\* (WorkspacePage.jsx:184-193, 220-252; ProjectPage.jsx:358-382)
LateSubmitSettles(req, ok) ==
    /\ ~mounted
    /\ submits[req] > 0
    /\ submits' = [submits EXCEPT ![req] = @ - 1]
    /\ IF ok
       THEN /\ nextJob <= MaxJobs
            /\ jobs' = [jobs EXCEPT ![nextJob] =
                   [type |-> JobTypeOf(req.kind), status |-> "pending",
                    output |-> NoOutput]]
            /\ nextJob' = nextJob + 1
            /\ UNCHANGED <<toast, pendingDownloadRef>>
       ELSE /\ toast' = CASE req.kind = "2d" -> "Failed to regenerate"
                          [] req.kind = "artifact" -> "Failed to generate spec"
                          [] req.kind = "3d" -> "Failed to start 3D generation"
                          [] req.kind = "zoning" -> "Failed to start zoning report generation"
                          [] OTHER -> "Failed to start technical info report generation"
            /\ pendingDownloadRef' = IF req.kind = "artifact" THEN FALSE
                                     ELSE pendingDownloadRef
            /\ UNCHANGED <<jobs, nextJob>>
    /\ lastEvent' = "none"
    /\ UNCHANGED chatVars
    /\ UNCHANGED lifeVars
    /\ UNCHANGED <<srvRoom, srvProject, pollVars, projVars, pipelineStatus,
                   threeProgress, activeTab, generatedImages, room, roomLoading,
                   submitCount, roomFetches, msgFetches, clock, downloads, dispatched,
                   terminalSeen>>

\* a room fetch that was in flight at unmount settles: setRoom and the other
\* updates are dropped; the then() of the artifact branch still runs
\* performDownload with the fetched room, the catch still shows its toast
\* (WorkspacePage.jsx:75-100, 124, 195-218)
LateFetchRoomSettles(k, ok) ==
    /\ ~mounted
    /\ roomFetches[k] > 0
    /\ roomFetches' = [roomFetches EXCEPT ![k] = @ - 1]
    /\ IF ok
       THEN IF k # 0
            THEN /\ downloads' = [downloads EXCEPT ![k] =
                                     IF StartsDownload(srvRoom) THEN @ + 1 ELSE @]
                 /\ toast' = IF PerformDownload(srvRoom) = "unavailable"
                             THEN "Spec content is unavailable" ELSE toast
            ELSE UNCHANGED <<downloads, toast>>
       ELSE /\ toast' = "Failed to load room"
            /\ UNCHANGED downloads
    /\ lastEvent' = "none"
    /\ UNCHANGED chatVars
    /\ UNCHANGED lifeVars
    /\ UNCHANGED <<srvVars, pollVars, projVars, pipelineStatus, threeProgress, activeTab,
                   generatedImages, pendingDownloadRef, room, roomLoading, submits,
                   submitCount, msgFetches, clock, dispatched, terminalSeen>>

\* ------------------------------------------------------ the estimator's clock
\* the 1-second interval of the timer effect fires: setTimeNow(Date.now())
\* (WorkspacePage.jsx:141-149); Date.now() is some later instant
NowChoices ==
    {0, 500, 1000, 30000, 42750, 45000, 46000, 57000, 57001, 60000, 60001, 90000,
     91000, 570000, 600000, 700000}

TimerFires ==
    /\ mounted
    /\ pipelineStatus = "generating_3d"
    /\ threeProgress # NoProgress
    /\ \E t \in NowChoices : t > timeNow /\ timeNow' = t
    /\ lastEvent' = "timer"
    /\ UNCHANGED chatVars
    /\ UNCHANGED <<mounted, lateUpdates>>
    /\ UNCHANGED extVars
    /\ UNCHANGED <<srvVars, pollVars, wsVars, projVars, toast, downloads, dispatched,
                   terminalSeen>>

\* setJob(data.job) of poll() (useRooms.js:79): the render that follows shows
\* the new snapshot before the dispatch effect has run
SnapshotChoices ==
    {NoSnapshot} \cup
    {[id |-> 1, type |-> ty, status |-> st, output |-> NoOutput] :
        ty \in {"model_3d", "image_2d"}, st \in {"pending", "processing", "completed"}}

SetJob(snap) ==
    /\ mounted
    /\ job["room"] # snap
    /\ job' = [job EXCEPT !["room"] = snap]
    /\ lastEvent' = "set_job"
    /\ UNCHANGED chatVars
    /\ UNCHANGED lifeVars
    /\ UNCHANGED <<srvVars, jobId, polling, intervalRef, timers, nextTimer, statusReqs,
                   wsVars, projVars, toast, downloads, dispatched, terminalSeen>>

\* ------------------------------------------------------ useChat: fetchMessages
\* transcripts already loaded when the user types
InitTranscripts ==
    {<<Message(<<"u", "0">>, "user", <<"h", "i">>),
       Message(<<"m", "0">>, "assistant", <<"y", "o">>)>>}

\* the image URLs of the assistant entries (WorkspacePage.jsx:151-154)
RECURSIVE UrlsFromMessages(_)
UrlsFromMessages(ms) ==
    IF ms = <<>> THEN <<>>
    ELSE (IF ms[1].role = "assistant" THEN ms[1].imageUrls ELSE <<>>)
         \o UrlsFromMessages(Tail(ms))

\* an effect that appends the URLs without the Set
ImagesAppendMessages(images, ms) == images \o UrlsFromMessages(ms)

\* the effect on [messages] (WorkspacePage.jsx:150-157)
ImagesAfterMessages(images, ms) ==
    IF UrlsFromMessages(ms) = <<>> THEN images
    ELSE Dedup(images \o UrlsFromMessages(ms))

\* the assistant entry the server stores for an image job that completed with
\* result URLs: it carries the URLs (this is what the fetchMessages() of
\* WorkspacePage.jsx:114 is called for)
ImageReplies ==
    {<<[Message(<<"m", "2">>, "assistant", <<>>)
           EXCEPT !.imageUrls = jobs[id].output.resultUrls]>> :
        id \in {j \in JobIds : /\ jobs[j].type = "image_2d"
                               /\ jobs[j].status = "completed"
                               /\ jobs[j].output.hasUrls}}

\* what GET .../messages may return: the transcript stored before the page was
\* opened, with the user's message of a request the server has received and
\* the entry of an image job that has completed
StoredTranscripts ==
    {t \o extra \o img :
        t \in InitTranscripts,
        extra \in {<<>>} \cup
                  (IF nSends > 0
                   THEN {<<Message(<<"u", "1">>, "user", <<"h", "i">>)>>}
                   ELSE {}),
        img \in {<<>>} \cup ImageReplies}

\* fetchMessages resolves: setMessages(data.messages || []) (useChat.js:13-24),
\* then the effect on [messages]
FetchMessagesOk ==
    /\ mounted
    /\ msgFetches > 0
    /\ msgFetches' = msgFetches - 1
    /\ \E t \in StoredTranscripts :
          /\ messages' = t
          /\ generatedImages' = ImagesAfterMessages(generatedImages, t)
    /\ lastEvent' = "none"
    /\ UNCHANGED lifeVars
    /\ UNCHANGED <<srvVars, pollVars, projVars, streaming, stream, nSends, framesSent,
                   noticed, pipelineStatus, threeProgress, activeTab, pendingDownloadRef,
                   room, roomLoading, submits, submitCount, roomFetches, clock, toast,
                   downloads, dispatched, terminalSeen>>

\* fetchMessages rejects: setError (useChat.js:19-20), the list is kept
FetchMessagesFail ==
    /\ mounted
    /\ msgFetches > 0
    /\ msgFetches' = msgFetches - 1
    /\ lastEvent' = "none"
    /\ UNCHANGED chatVars
    /\ UNCHANGED lifeVars
    /\ UNCHANGED <<srvVars, pollVars, projVars, pipelineStatus, threeProgress, activeTab,
                   generatedImages, pendingDownloadRef, room, roomLoading, submits,
                   submitCount, roomFetches, clock, toast, downloads, dispatched,
                   terminalSeen>>

InitServer ==
    /\ jobs = [id \in JobIds |-> NoJob]
    /\ nextJob = 1
    /\ srvProject = [s \in ReportSlots |-> NoReport]

InitPollers ==
    /\ jobId = [s \in Slots |-> NoId]
    /\ job = [s \in Slots |-> NoSnapshot]
    /\ polling = [s \in Slots |-> FALSE]
    /\ intervalRef = [s \in Slots |-> NoId]
    /\ timers = {}
    /\ nextTimer = 1
    /\ statusReqs = [s \in Slots |-> [id \in JobIds |-> 0]]

InitChat ==
    /\ messages = <<>>
    /\ streaming = FALSE
    /\ stream = NoStream
    /\ nSends = 0
    /\ framesSent = 0
    /\ noticed = {}

InitExt ==
    /\ fetchFailed = {}
    /\ stream2 = NoStream
    /\ approve = NoApprovals

InitLife ==
    /\ mounted = TRUE
    /\ timeNow = 0
    /\ lateUpdates = 0
    /\ InitExt

InitObs ==
    /\ InitLife
    /\ toast = NULL
    /\ downloads = [id \in JobIds |-> 0]
    /\ dispatched = [id \in JobIds |-> 0]
    /\ terminalSeen = {}
    /\ lastEvent = "none"

\* the room document when the page is opened: with or without a spec
InitRooms ==
    {[artifactUrl |-> NULL, artifactContent |-> FALSE, has3d |-> FALSE,
      approved2dImageUrls |-> <<"u1">>],
     [artifactUrl |-> "artifact://spec", artifactContent |-> TRUE, has3d |-> FALSE,
      approved2dImageUrls |-> <<"u1">>]}

\* WorkspacePage mounted: useState initial values (WorkspacePage.jsx:31-40) and
\* the mount effect's fetchRoom() and fetchMessages() in flight (lines 102-108)
Init ==
    /\ InitServer
    /\ InitPollers
    /\ InitObs
    /\ InitChat
    /\ srvRoom \in InitRooms
    /\ pipelineStatus = NULL
    /\ threeProgress = NoProgress
    /\ activeTab = "images"
    /\ generatedImages = <<>>
    /\ pendingDownloadRef = FALSE
    /\ room = NoRoom
    /\ roomLoading = TRUE
    /\ submits = [r \in AllSubmitReqs |-> 0]
    /\ submitCount = 0
    /\ roomFetches = [k \in RoomFetchKinds |-> IF k = 0 THEN 1 ELSE 0]
    /\ msgFetches = 1
    /\ clock = 0
    /\ busy = [s \in ReportSlots |-> FALSE]
    /\ projectFetches = [s \in ReportSlots |-> [id \in JobIds |-> 0]]

Next ==
    \/ \E k \in RoomFetchKinds : FetchRoomOk(k)
    \/ \E k \in RoomFetchKinds : FetchRoomFail(k)
    \/ \E t \in {"images", "3d"} : SetActiveTab(t)
    \/ HandleRegenerate
    \/ HandleDownloadSpec
    \/ \E m \in ThreeModels : HandleGenerate3D(m)
    \/ \E r \in SubmitReqs : SubmitOk(r)
    \/ \E r \in SubmitReqs : SubmitFail(r)
    \/ Tick("room")
    \/ \E id \in JobIds : RoomStatusResponse(id)
    \/ \E id \in JobIds : StatusError("room", id)
    \/ \E id \in JobIds : ServerStart(id)
    \/ \E id \in JobIds : ServerComplete(id)
    \/ \E id \in JobIds : ServerFail(id)

Spec == Init /\ [][Next]_vars

\* Scheduling of the event loop and its environment: a live interval keeps
\* firing, every request in flight settles, the job runner keeps working.
\* User actions (buttons) carry no fairness.
SystemNext ==
    \/ \E k \in RoomFetchKinds : FetchRoomOk(k) \/ FetchRoomFail(k)
    \/ \E r \in SubmitReqs : SubmitOk(r) \/ SubmitFail(r)
    \/ Tick("room")
    \/ \E id \in JobIds : RoomStatusResponse(id) \/ StatusError("room", id)
    \/ \E id \in JobIds : ServerStart(id) \/ ServerComplete(id) \/ ServerFail(id)

FairSpec == Spec /\ WF_vars(SystemNext)

\* The workspace in a benign environment: every status request is answered
\* successfully (no StatusError), a live interval keeps firing, responses in
\* flight settle, and the job runner takes every job to a terminal status.
\* User actions carry no fairness.
NextBenign ==
    \/ \E k \in RoomFetchKinds : FetchRoomOk(k)
    \/ \E k \in RoomFetchKinds : FetchRoomFail(k)
    \/ \E t \in {"images", "3d"} : SetActiveTab(t)
    \/ HandleRegenerate
    \/ HandleDownloadSpec
    \/ \E m \in ThreeModels : HandleGenerate3D(m)
    \/ \E r \in SubmitReqs : SubmitOk(r)
    \/ \E r \in SubmitReqs : SubmitFail(r)
    \/ Tick("room")
    \/ \E id \in JobIds : RoomStatusResponse(id)
    \/ \E id \in JobIds : ServerStart(id)
    \/ \E id \in JobIds : ServerComplete(id)
    \/ \E id \in JobIds : ServerFail(id)

BenignFairSpec ==
    /\ Init
    /\ [][NextBenign]_vars
    /\ WF_vars(Tick("room"))
    /\ WF_vars(\E r \in SubmitReqs : SubmitOk(r) \/ SubmitFail(r))
    /\ WF_vars(\E k \in RoomFetchKinds : FetchRoomOk(k) \/ FetchRoomFail(k))
    /\ \A id \in JobIds : WF_vars(RoomStatusResponse(id))
    /\ \A id \in JobIds : WF_vars(ServerStart(id))
    /\ \A id \in JobIds : WF_vars(ServerComplete(id) \/ ServerFail(id))

\* ProjectPage mounted: useState initial values (ProjectPage.jsx:169-180)
InitProject ==
    /\ InitServer
    /\ InitPollers
    /\ InitObs
    /\ InitChat
    /\ srvRoom = NoRoom
    /\ pipelineStatus = NULL
    /\ threeProgress = NoProgress
    /\ activeTab = "images"
    /\ generatedImages = <<>>
    /\ pendingDownloadRef = FALSE
    /\ room = NoRoom
    /\ roomLoading = TRUE
    /\ submits = [r \in AllSubmitReqs |-> 0]
    /\ submitCount = 0
    /\ roomFetches = [k \in RoomFetchKinds |-> 0]
    /\ msgFetches = 0
    /\ clock = 0
    /\ busy = [s \in ReportSlots |-> FALSE]
    /\ projectFetches = [s \in ReportSlots |-> [id \in JobIds |-> 0]]

NextProject ==
    \/ \E s \in ReportSlots : HandleGenerateReport(s)
    \/ \E s \in ReportSlots : ReportSubmitOk(s)
    \/ \E s \in ReportSlots : ReportSubmitFail(s)
    \/ \E s \in ReportSlots : Tick(s)
    \/ \E s \in ReportSlots, id \in JobIds : ReportStatusResponse(s, id)
    \/ \E s \in ReportSlots, id \in JobIds : StatusError(s, id)
    \/ \E s \in ReportSlots, id \in JobIds, ok \in BOOLEAN : ProjectFetchDone(s, id, ok)
    \/ \E id \in JobIds : ServerStart(id)
    \/ \E id \in JobIds : ServerCompleteReport(id)
    \/ \E id \in JobIds : ServerFail(id)

ProjectSpec == InitProject /\ [][NextProject]_vars

\* The estimator as a function of its four inputs: the progress snapshot set
\* by handleGenerate3D (WorkspacePage.jsx:243-247) with any start instant and
\* estimate, the last clock reading, and the poller's snapshot.
EstimateChoices == {1, 45 * 1000, 60000, 10 * 60 * 1000}
StartChoices == {0, 1000}

InitEta ==
    /\ InitServer
    /\ InitPollers
    /\ toast = NULL
    /\ downloads = [id \in JobIds |-> 0]
    /\ dispatched = [id \in JobIds |-> 0]
    /\ terminalSeen = {}
    /\ lastEvent = "none"
    /\ InitChat
    /\ mounted = TRUE
    /\ lateUpdates = 0
    /\ InitExt
    /\ timeNow \in {0, 500, 1000}
    /\ srvRoom \in InitRooms
    /\ pipelineStatus = "generating_3d"
    /\ \E m \in ThreeModels, st \in StartChoices, e \in EstimateChoices :
          threeProgress = [model |-> m, startedAt |-> st, estimatedMs |-> e]
    /\ activeTab = "images"
    /\ generatedImages = <<>>
    /\ pendingDownloadRef = FALSE
    /\ room = NoRoom
    /\ roomLoading = TRUE
    /\ submits = [r \in AllSubmitReqs |-> 0]
    /\ submitCount = 0
    /\ roomFetches = [k \in RoomFetchKinds |-> 0]
    /\ msgFetches = 0
    /\ clock = 0
    /\ busy = [s \in ReportSlots |-> FALSE]
    /\ projectFetches = [s \in ReportSlots |-> [id \in JobIds |-> 0]]

NextEta ==
    \/ TimerFires
    \/ \E snap \in SnapshotChoices : SetJob(snap)

EtaSpec == InitEta /\ [][NextEta]_vars

\* ProjectPage over its whole life: mounted, then unmounted with whatever was
\* in flight still settling
NextTeardown ==
    \/ NextProject
    \/ Unmount
    \/ \E s \in ReportSlots, id \in JobIds : LateStatusResponse(s, id)
    \/ \E s \in ReportSlots, id \in JobIds : LateStatusError(s, id)
    \/ \E r \in ReportSubmitReqs, ok \in BOOLEAN : LateSubmitSettles(r, ok)

TeardownSpec == InitProject /\ [][NextTeardown]_vars

\* WorkspacePage over its whole life
NextWorkspaceLife ==
    \/ Next
    \/ Unmount
    \/ \E id \in JobIds : LateStatusResponse("room", id)
    \/ \E id \in JobIds : LateStatusError("room", id)
    \/ \E r \in SubmitReqs, ok \in BOOLEAN : LateSubmitSettles(r, ok)
    \/ \E k \in RoomFetchKinds, ok \in BOOLEAN : LateFetchRoomSettles(k, ok)

WorkspaceLifeSpec == Init /\ [][NextWorkspaceLife]_vars

\* WorkspacePage with the room and the transcript loaded, no job under way
InitChatPage ==
    /\ InitServer
    /\ InitPollers
    /\ InitObs
    /\ srvRoom \in {r \in InitRooms : r.artifactUrl = NULL}
    /\ pipelineStatus = NULL
    /\ threeProgress = NoProgress
    /\ activeTab = "images"
    /\ generatedImages = srvRoom.approved2dImageUrls
    /\ pendingDownloadRef = FALSE
    /\ room = srvRoom
    /\ roomLoading = FALSE
    /\ submits = [r \in AllSubmitReqs |-> 0]
    /\ submitCount = 0
    /\ roomFetches = [k \in RoomFetchKinds |-> 0]
    /\ msgFetches = 0
    /\ clock = 0
    /\ busy = [s \in ReportSlots |-> FALSE]
    /\ projectFetches = [s \in ReportSlots |-> [id \in JobIds |-> 0]]
    /\ messages \in InitTranscripts
    /\ streaming = FALSE
    /\ stream = NoStream
    /\ nSends = 0
    /\ framesSent = 0
    /\ noticed = {}

NextChat ==
    \/ SendMessage(<<"h", "i">>)
    \/ RequestFails("Chat request failed")
    \/ RequestFails("Failed to send message")
    \/ \E reply \in Replies(MaxFrames) : ResponseOk(reply)
    \/ ReadChunk
    \/ ReadDone
    \/ ReadError

ChatSpec == InitChatPage /\ [][NextChat]_vars

\* WorkspacePage with a chat stream and an image job under way at once
ShortReplies == {<<TextFrame(<<"H", "e">>)>>}

NextRefresh ==
    \/ HandleRegenerate
    \/ \E r \in SubmitReqs : SubmitOk(r)
    \/ Tick("room")
    \/ \E id \in JobIds : RoomStatusResponse(id)
    \/ \E id \in JobIds : ServerStart(id)
    \/ \E id \in JobIds : ServerComplete(id)
    \/ FetchMessagesOk
    \/ FetchMessagesFail
    \/ SendMessage(<<"h", "i">>)
    \/ \E reply \in ShortReplies : ResponseOk(reply)
    \/ ReadChunk
    \/ ReadDone

RefreshSpec == InitChatPage /\ [][NextRefresh]_vars

\* replies in which some frames carry a payload that is not JSON: a truncated
\* object, an object followed by a stray brace, a bare word in braces
MalformedChoices ==
    {RawFrame(<<"{", QUOTE, "t", "e", "x", "t", QUOTE, ":", QUOTE, "x", QUOTE>>),
     RawFrame(<<"{", QUOTE, "t", "e", "x", "t", QUOTE, ":", QUOTE, "x", QUOTE, "}", "}">>),
     RawFrame(<<"{", "o", "o", "p", "s", "}">>)}

MixedChoices ==
    {TextFrame(<<"H", "e">>), TextFrame(<<"l", "l", "o">>), RebindFrame(<<"m", "1">>)}
      \cup MalformedChoices

RECURSIVE MixedReplies(_)
MixedReplies(n) ==
    IF n = 0 THEN {<<>>}
    ELSE MixedReplies(n - 1) \cup
         {Append(r, f) : r \in {q \in MixedReplies(n - 1) : Len(q) = n - 1},
                         f \in MixedChoices}

NextMalformed ==
    \/ SendMessage(<<"h", "i">>)
    \/ RequestFails("Chat request failed")
    \/ \E reply \in MixedReplies(MaxFrames) : ResponseOk(reply)
    \/ ReadChunk
    \/ ReadDone
    \/ ReadError

MalformedSpec == InitChatPage /\ [][NextMalformed]_vars

\* WorkspacePage with a message sent from the chat input and feedback on an
\* image sent from the viewer, in either order and overlapping
NextOverlap ==
    \/ SendMessage(<<"h", "i">>)
    \/ \E reply \in ShortReplies : ResponseOk(reply)
    \/ ReadChunk
    \/ ReadDone
    \/ HandleRejectImage
    \/ FeedbackResponseOk(<<TextFrame(<<"l", "l", "o">>)>>)
    \/ FeedbackReadChunk
    \/ FeedbackReadDone

OverlapSpec == InitChatPage /\ [][NextOverlap]_vars

\* WorkspacePage from its mount, with everything that writes generatedImages:
\* room fetches, image jobs and transcript fetches
NextImages ==
    \/ \E k \in RoomFetchKinds : FetchRoomOk(k)
    \/ \E k \in RoomFetchKinds : FetchRoomFail(k)
    \/ HandleRegenerate
    \/ \E r \in SubmitReqs : SubmitOk(r)
    \/ Tick("room")
    \/ \E id \in JobIds : RoomStatusResponse(id)
    \/ \E id \in JobIds : ServerStart(id)
    \/ \E id \in JobIds : ServerComplete(id)
    \/ FetchMessagesOk
    \/ FetchMessagesFail

ImagesSpec == Init /\ [][NextImages]_vars

\* WorkspacePage with a room without approvals loaded and three images shown,
\* which came with the transcript
InitApprove ==
    /\ InitServer
    /\ InitPollers
    /\ InitObs
    /\ srvRoom = NoRoom
    /\ pipelineStatus = NULL
    /\ threeProgress = NoProgress
    /\ activeTab = "images"
    /\ generatedImages = <<"u1", "u2", "u3">>
    /\ pendingDownloadRef = FALSE
    /\ room = srvRoom
    /\ roomLoading = FALSE
    /\ submits = [r \in AllSubmitReqs |-> 0]
    /\ submitCount = 0
    /\ roomFetches = [k \in RoomFetchKinds |-> 0]
    /\ msgFetches = 0
    /\ clock = 0
    /\ busy = [s \in ReportSlots |-> FALSE]
    /\ projectFetches = [s \in ReportSlots |-> [id \in JobIds |-> 0]]
    /\ messages = <<[Message(<<"m", "0">>, "assistant", <<"y", "o">>)
                        EXCEPT !.imageUrls = <<"u1", "u2", "u3">>]>>
    /\ streaming = FALSE
    /\ stream = NoStream
    /\ nSends = 0
    /\ framesSent = 0
    /\ noticed = {}

NextApprove ==
    \/ HandleApproveImage
    \/ ApprovePutOk
    \/ ApprovePutFail

ApproveSpec == InitApprove /\ [][NextApprove]_vars

\* ------------------------------------------------------------------ claims
\* C1: once a status response with status completed or failed has been
\* received for a job id, no step issues a further status fetch for that id.
C1_NoFetchAfterTerminal ==
    [][\A s \in Slots : \A id \in terminalSeen :
          statusReqs'[s][id] <= statusReqs[s][id]]_vars

\* a job reached its terminal response and the poller now polls another job
C1_Witness ==
    \E id \in terminalSeen :
       /\ activeJobId \notin {NoId, id}
       /\ \E t \in timers : t.id = activeJobId

\* C2: for every job id the terminal branch of the dispatch effect runs at
\* most once.
C2_DispatchedAtMostOnce == \A id \in JobIds : dispatched[id] <= 1

NoDuplicateImages ==
    \A i, j \in 1..Len(generatedImages) :
       generatedImages[i] = generatedImages[j] => i = j

\* C3: delivering a terminal completed snapshot twice leaves each result URL
\* once in the image collection and starts at most one download for the job.
C3_DuplicateDeliveryIdempotent ==
    /\ NoDuplicateImages
    /\ \A id \in JobIds : downloads[id] <= 1

\* a submission is under way or a created job has not reached a terminal status
SomeJobActive ==
    \/ \E r \in AllSubmitReqs : submits[r] > 0
    \/ \E id \in JobIds : jobs[id].status \in {"pending", "processing"}

\* C4: pipelineStatus is null (idle) if and only if no job of the workspace
\* is pending or processing.
C4_IdleIffNoActiveJob == (pipelineStatus = NULL) <=> ~SomeJobActive

\* C5: after any failure (submission, job or status fetch) pipelineStatus
\* eventually becomes null without user action.
C5_FailureRecovers == (lastEvent # "none") ~> (pipelineStatus = NULL)

\* ---- the chat stream

\* C6: whenever the chat stream delivers an action notice naming a job, the
\* workspace tracks that job from then on: activeJobId is the job, its status has
\* been requested and pipelineStatus is generating_2d.
C6_NoticeStartsTracking ==
    [][\A j \in noticed' \ noticed :
          /\ activeJobId' = j
          /\ statusReqs'["room"][j] > 0
          /\ pipelineStatus' = "generating_2d"]_vars

\* the concatenation of the frames' text values, in arrival order
RECURSIVE ConcatText(_)
ConcatText(frames) ==
    IF frames = <<>> THEN <<>>
    ELSE TextOf(Get(frames[1], K_text)) \o ConcatText(Tail(frames))

IsTextDelta(f) == f.kind = "obj" /\ Len(f.members) = 1 /\ f.members[1].key = K_text
IsRebind(f) == f.kind = "obj" /\ Len(f.members) = 1 /\ f.members[1].key = K_messageId

\* the rebind that counts: the last one of the reply
RECURSIVE LastRebind(_)
LastRebind(frames) ==
    IF IsRebind(frames[Len(frames)]) THEN frames[Len(frames)].members[1].val.str
    ELSE LastRebind(SubSeq(frames, 1, Len(frames) - 1))

\* C7: when a reply made of text-delta frames only has been read to its end,
\* however it was cut into chunks, the placeholder's content is the
\* concatenation of the frames' text values in arrival order.
C7_Reassembly ==
    (stream.pc = "done" /\ \A i \in 1..Len(stream.frames) : IsTextDelta(stream.frames[i]))
        => /\ Len(messages) = stream.pos
           /\ messages[stream.pos].content = ConcatText(stream.frames)

\* a reply of several deltas, one with an escaped newline, read with a chunk
\* boundary inside a frame
C7_Witness ==
    /\ stream.pc = "done"
    /\ stream.cut
    /\ Len(stream.frames) = MaxFrames
    /\ \A i \in 1..Len(stream.frames) : IsTextDelta(stream.frames[i])
    /\ stream.frames[2] = TextFrame(<<NL, QUOTE>>)
    /\ messages[stream.pos].content = <<"H", "e", NL, QUOTE, "l", "l", "o">>

\* C8: when a reply of text deltas and at least one rebind, in any order, has
\* been read to its end, the entry appended for the reply is still the last one,
\* has role assistant, the rebind's id, and the concatenation of all deltas as
\* its content.
C8_RebindKeepsContent ==
    (/\ stream.pc = "done"
     /\ \A i \in 1..Len(stream.frames) :
           IsTextDelta(stream.frames[i]) \/ IsRebind(stream.frames[i])
     /\ \E i \in 1..Len(stream.frames) : IsRebind(stream.frames[i]))
        => /\ Len(messages) = stream.pos
           /\ messages[stream.pos].id = LastRebind(stream.frames)
           /\ messages[stream.pos].role = "assistant"
           /\ messages[stream.pos].content = ConcatText(stream.frames)

\* deltas "He" and "llo" with the rebind between them
C8_Witness ==
    /\ stream.pc = "done"
    /\ stream.frames = <<TextFrame(<<"H", "e">>), RebindFrame(<<"m", "1">>),
                         TextFrame(<<"l", "l", "o">>)>>
    /\ messages[stream.pos] = Message(<<"m", "1">>, "assistant", <<"H", "e", "l", "l", "o">>)

ChatErrors == {"Chat request failed", "Failed to send message", "network error"}

\* C10: after a failed submission the entry appended for the reply is gone, the
\* user's message of that submission is the last entry, an error has been shown
\* and streaming is false.
C10_FailureRemovesPlaceholder ==
    stream.pc = "failed"
        => /\ Len(messages) = stream.pos - 1
           /\ messages[stream.pos - 1].id = stream.userId
           /\ toast \in ChatErrors
           /\ ~streaming

\* ---- submission failures and the terminal branches

\* C11: when the POST of a submission handler fails, that step sets
\* pipelineStatus to null, touches no poller state (no job id is set, no timer
\* or status request is created) and, for 3D, leaves no progress snapshot; when
\* the handler was the only one started, from an idle workspace, no job id is
\* tracked and no poller exists afterwards.
C11_FailedSubmissionTracksNothing ==
    [][\A r \in SubmitReqs :
          (submits'[r] < submits[r] /\ nextJob' = nextJob)
             => /\ pipelineStatus' = NULL
                /\ jobId' = jobId /\ job' = job /\ polling' = polling
                /\ intervalRef' = intervalRef /\ timers' = timers
                /\ statusReqs' = statusReqs
                /\ r.kind = "3d" => threeProgress' = NoProgress
                /\ submitCount = 1
                     => /\ activeJobId' = NoId
                        /\ timers' = {}
                        /\ \A id \in JobIds : statusReqs'["room"][id] = 0
                        /\ threeProgress' = NoProgress]_vars

\* the POST of a 3D generation started from the idle workspace has just failed
C11_Witness ==
    /\ lastEvent = "submit_failed"
    /\ toast = "Failed to start 3D generation"
    /\ submitCount = 1
    /\ pipelineStatus = NULL
    /\ activeJobId = NoId

\* the step in which the dispatch effect handles a terminal snapshot of job id
Handled(id) == dispatched'[id] > dispatched[id]

\* C12: when the completed snapshot of a model_3d job is delivered, that step
\* issues a refetch of the room, sets activeTab to '3d', clears pipelineStatus,
\* the progress snapshot and activeJobId and leaves no interval of the poller;
\* from then on no step issues a status fetch for the job.
C12_Model3dCompletion ==
    [][\A id \in JobIds :
          /\ (Handled(id) /\ jobs[id].type = "model_3d" /\ jobs[id].status = "completed")
                => /\ roomFetches'[0] = roomFetches[0] + 1
                   /\ activeTab' = "3d"
                   /\ pipelineStatus' = NULL
                   /\ threeProgress' = NoProgress
                   /\ activeJobId' = NoId
                   /\ \A t \in timers' : t.slot # "room"
          /\ (id \in terminalSeen /\ jobs[id].type = "model_3d")
                => statusReqs'["room"][id] <= statusReqs["room"][id]]_vars

\* a model_3d job was polled while pending and processing, its completed
\* snapshot has been handled and the room refetch is under way
C12_Witness ==
    /\ activeJob.type = "model_3d"
    /\ activeJob.status = "completed"
    /\ dispatched[activeJob.id] = 1
    /\ roomFetches[0] > 0
    /\ activeTab = "3d"
    /\ pipelineStatus = NULL
    /\ activeJobId = NoId
    /\ timers = {}

\* ---- teardown

\* C13: once the owning component is unmounted no interval of its pollers is
\* left, and no later step issues a status fetch or calls setJob / setPolling,
\* even when a status request was in flight at the moment of unmount.
C13_QuietAfterTeardown ==
    [][/\ ~mounted' => timers' = {}
       /\ ~mounted =>
            /\ \A s \in Slots, id \in JobIds : statusReqs'[s][id] <= statusReqs[s][id]
            /\ lateUpdates' = lateUpdates]_vars

\* ---- the ETA estimator

\* elapsed time as the estimator reads it, and the estimate of the snapshot
Elapsed == Max(0, timeNow - threeProgress.startedAt)
Estimated == threeProgress.estimatedMs
Completed3d == activeJob.type = "model_3d" /\ activeJob.status = "completed"

\* C14: for integer milliseconds, while the 3D job is not completed
\* progress = min(95, 100 * elapsed / estimated), non-decreasing in elapsed,
\* remainingMs = max(0, estimated - elapsed) and overdue iff elapsed > estimated
\* (estimated 60000, elapsed 90000: progress 95, remainingMs 0, overdue); once
\* the model_3d job is completed progress is 100, remainingMs 0, not overdue.
C14_EtaEstimator ==
    threeProgressUi.active =>
      LET ui == threeProgressUi IN
      /\ ~Completed3d =>
           /\ IF 100 * Elapsed >= 95 * Estimated
              THEN ui.progress.num = 95 * ui.progress.den
              ELSE RatEq(ui.progress, Rat(100 * Elapsed, Estimated))
           /\ \A t \in NowChoices :
                 t >= timeNow =>
                    RatLeq(ui.progress,
                           ThreeProgressUi(pipelineStatus, threeProgress, t,
                                           activeJob).progress)
           /\ ui.remainingMs = (IF Estimated > Elapsed THEN Estimated - Elapsed ELSE 0)
           /\ ui.isOverEstimate <=> Elapsed > Estimated
           /\ (Estimated = 60000 /\ Elapsed = 90000)
                 => /\ ui.progress.num = 95 * ui.progress.den
                    /\ ui.remainingMs = 0
                    /\ ui.isOverEstimate
      /\ Completed3d =>
           /\ ui.progress.num = 100 * ui.progress.den
           /\ ui.remainingMs = 0
           /\ ~ui.isOverEstimate

\* the timer has fired 90 s after the start of a job estimated at 60 s that is
\* still processing: the bar stands at 95 and the display is overdue
C14_Witness ==
    /\ lastEvent = "timer"
    /\ threeProgressUi.active
    /\ Estimated = 60000
    /\ Elapsed = 90000
    /\ activeJob.status = "processing"
    /\ RatEq(threeProgressUi.progress, Rat(95, 1))
    /\ threeProgressUi.remainingMs = 0
    /\ threeProgressUi.isOverEstimate

\* the model_3d job returned by the submission that set the current progress
\* snapshot: the latest model_3d job created
Model3dJobs == {id \in JobIds : jobs[id].type = "model_3d"}
OwningJob == CHOOSE id \in Model3dJobs : \A other \in Model3dJobs : other <= id
ReportedCompleted(id) == id \in terminalSeen /\ jobs[id].status = "completed"

\* C15: whenever the ETA display is active the displayed progress is at most
\* 95, unless the job owning the progress snapshot has been reported completed;
\* this holds for every 3D job of a session.
C15_CappedUntilOwnerCompletes ==
    threeProgressUi.active =>
       \/ RatLeq(threeProgressUi.progress, Rat(95, 1))
       \/ (Model3dJobs # {} /\ ReportedCompleted(OwningJob))

\* C16: when a failed snapshot of a job of any type is handled, the error text
\* of the job's output is shown (a generic message when there is none) and
\* afterwards pipelineStatus, the progress snapshot and the tracked job id are
\* all null.
C16_FailedClearsEverything ==
    [][\A id \in JobIds :
          (Handled(id) /\ jobs[id].status = "failed")
             => /\ toast' = (IF jobs[id].output.error # NULL
                             THEN jobs[id].output.error ELSE "Generation failed")
                /\ pipelineStatus' = NULL
                /\ threeProgress' = NoProgress
                /\ activeJobId' = NoId]_vars

\* the number of positions of xs holding x
Occurrences(xs, x) == Cardinality({i \in 1..Len(xs) : xs[i] = x})

\* C17: when the completed snapshot of an image_2d job is handled, with or
\* without result URLs in its output, each result URL is afterwards in the image
\* collection exactly once, the transcript is refetched, and pipelineStatus and
\* the tracked job id are null.
C17_Image2dCompletion ==
    [][\A id \in JobIds :
          (Handled(id) /\ jobs[id].type = "image_2d" /\ jobs[id].status = "completed")
             => /\ \A i \in 1..Len(jobs[id].output.resultUrls) :
                      Occurrences(generatedImages', jobs[id].output.resultUrls[i]) = 1
                /\ msgFetches' = msgFetches + 1
                /\ pipelineStatus' = NULL
                /\ activeJobId' = NoId]_vars

\* ---- report and artifact completion

StartedToast(s) ==
    IF s = "zoning" THEN "Zoning report created. PDF download started."
    ELSE "Technical info report created. PDF download started."
CreatedToast(s) ==
    IF s = "zoning" THEN "Zoning report created" ELSE "Technical info report created"

C19_ArtifactCompletion ==
    [][\A id \in JobIds :
          /\ (Handled(id) /\ jobs[id].type = "artifact" /\ jobs[id].status = "completed")
                => /\ pipelineStatus' = NULL
                   /\ activeJobId' = NoId
                   /\ IF pendingDownloadRef
                      THEN roomFetches'[id] = roomFetches[id] + 1
                      ELSE roomFetches'[0] = roomFetches[0] + 1
                   /\ downloads' = downloads
          /\ roomFetches'[id] < roomFetches[id]
                => \/ /\ room' = srvRoom
                      /\ srvRoom.artifactUrl # NULL
                      /\ srvRoom.artifactUrl = "artifact://spec" => srvRoom.artifactContent
                      /\ downloads[id] = 0
                      /\ downloads'[id] = 1
                   \/ /\ room' = srvRoom
                      /\ toast' = "Spec content is unavailable"
                      /\ downloads' = downloads
                   \/ /\ room' = room
                      /\ toast' = "Failed to load room"
                      /\ downloads' = downloads
          /\ downloads'[id] > downloads[id] => roomFetches'[id] < roomFetches[id]]_vars

\* ---- one timer per poller

TimersOf(s) == {t \in timers : t.slot = s}

\* C20: in every reachable state each usePollJob instance has at most one live
\* interval, the one its intervalRef holds; after stopPolling (intervalRef null,
\* polling false) and after teardown it has none; no job id is polled by two
\* timers.
C20_OneTimerPerPoller ==
    /\ \A s \in Slots :
          /\ Cardinality(TimersOf(s)) <= 1
          /\ \A t \in TimersOf(s) : t.h = intervalRef[s] /\ t.id = jobId[s]
          /\ (intervalRef[s] = NoId \/ ~polling[s]) => TimersOf(s) = {}
    /\ ~mounted => timers = {}
    /\ \A t1, t2 \in timers : t1.id = t2.id => t1 = t2

\* a second job was started while the first job's interval was live: the first
\* interval is gone and only the second job's interval remains
C20_Witness ==
    /\ jobId["room"] = 2
    /\ 1 \notin terminalSeen
    /\ jobs[1].status \in {"pending", "processing"}
    /\ nextTimer = 3
    /\ timers = {[h |-> 2, slot |-> "room", id |-> 2]}
    /\ intervalRef["room"] = 2

\* ---- fetch failures and superseded jobs

\* C21: when a status fetch fails the poller's interval is cleared, the exposed
\* snapshot stays what it was (no failed snapshot is made up, nothing is
\* dispatched), and from then on no status fetch is issued for that job.
C21_FetchFailureStopsQuietly ==
    [][\A s \in Slots, id \in JobIds :
          /\ (lastEvent' = "poll_failed" /\ statusReqs'[s][id] < statusReqs[s][id])
                => /\ \A t \in timers' : t.slot # s
                   /\ intervalRef'[s] = NoId
                   /\ ~polling'[s]
                   /\ job' = job
                   /\ dispatched' = dispatched
                   /\ terminalSeen' = terminalSeen
          /\ id \in fetchFailed => statusReqs'[s][id] <= statusReqs[s][id]]_vars

\* the fetch for processing job 1 failed after a processing snapshot had been
\* exposed: the interval is gone and the snapshot is still the processing one
C21_Witness ==
    /\ lastEvent = "poll_failed"
    /\ fetchFailed = {1}
    /\ jobId["room"] = 1
    /\ job["room"].id = 1
    /\ job["room"].status = "processing"
    /\ timers = {}
    /\ dispatched[1] = 0

\* ---- malformed frames

\* the frames of a reply whose payload is JSON
RECURSIVE WellFormed(_)
WellFormed(frames) ==
    IF frames = <<>> THEN <<>>
    ELSE (IF frames[1].kind = "raw" THEN <<>> ELSE <<frames[1]>>)
         \o WellFormed(Tail(frames))

\* C22: a data frame whose payload is not valid JSON changes nothing and does
\* not end the stream: the stream keeps being read, and when the reply has been
\* read to its end the transcript is the one the reply without its malformed
\* frames gives: the loaded entries at the front and, at the end, the user's
\* message and one assistant entry with the well-formed deltas concatenated and
\* the last well-formed rebind's id. The call has not failed.
C22_MalformedFramesSkipped ==
    /\ stream.pc = "reading" => (streaming /\ Len(messages) = stream.pos)
    /\ stream.pc = "done" =>
         LET good == WellFormed(stream.frames) IN
         /\ Len(messages) = stream.pos
         /\ SubSeq(messages, 1, 2) \in InitTranscripts
         /\ messages[stream.pos - 1] = Message(stream.userId, "user", <<"h", "i">>)
         /\ messages[stream.pos] =
               Message(IF \E i \in 1..Len(good) : IsRebind(good[i])
                       THEN LastRebind(good) ELSE stream.assistantId,
                       "assistant", ConcatText(good))
         /\ ~streaming

\* a truncated payload between two deltas: both deltas are in the entry
C22_Witness ==
    /\ stream.pc = "done"
    /\ Len(stream.frames) = 3
    /\ stream.frames[1] = TextFrame(<<"H", "e">>)
    /\ stream.frames[2].kind = "raw"
    /\ stream.frames[3] = TextFrame(<<"l", "l", "o">>)
    /\ messages[stream.pos].content = <<"H", "e", "l", "l", "o">>

\* ---- concurrent writers of the transcript

\* C23: while a chat stream is active a transcript refresh never replaces the
\* messages list, so the user's optimistic message and the placeholder with
\* the content accumulated so far stay in the list for as long as the stream
\* is being consumed.
C23_SingleWriterWhileStreaming ==
    [][/\ (streaming /\ msgFetches' < msgFetches) => messages' = messages
       /\ (streaming' /\ stream'.pc \in {"request", "reading"})
             => /\ Len(messages') >= stream'.pos
                /\ messages'[stream'.pos - 1].id = stream'.userId
                /\ messages'[stream'.pos].id = stream'.assistantId]_vars

\* C24: while the workspace's poller is given job B, a response to a status
\* request that was issued for another job A does not stop B's interval: B's
\* timer is still live after the step.
C24_LateResponseKeepsNewTimer ==
    [][\A a \in JobIds :
          (/\ jobId["room"] \notin {NoId, a}
           /\ statusReqs'["room"][a] < statusReqs["room"][a]
           /\ lastEvent' # "poll_failed")
             => \A t \in timers : t.id = jobId["room"] => t \in timers']_vars

\* C25: whenever a poller is given a job id, the snapshot it exposes is null or
\* a snapshot of that job, never one of a job polled before.
C25_SnapshotBelongsToJob ==
    \A s \in Slots :
       jobId[s] # NoId => (job[s] = NoSnapshot \/ job[s].id = jobId[s])

\* ---- overlapping chat streams

\* C26: when a message from the chat input and a feedback message overlap, a
\* read of either stream changes no entry but the placeholder its own
\* submission appended, and once both streams have been read to their ends
\* each placeholder holds the concatenation of its own stream's deltas.
C26_StreamsKeepApart ==
    [][/\ (stream.pc = "reading" /\ stream'.wire # stream.wire)
            => \A i \in 1..Len(messages) : i # stream.pos => messages'[i] = messages[i]
       /\ (stream2.pc = "reading" /\ stream2'.wire # stream2.wire)
            => \A i \in 1..Len(messages) : i # stream2.pos => messages'[i] = messages[i]
       /\ (stream'.pc = "done" /\ stream2'.pc = "done")
            => /\ messages'[stream'.pos].content = ConcatText(stream'.frames)
               /\ messages'[stream2'.pos].content = ConcatText(stream2'.frames)]_vars

\* ---- tracking of submitted jobs

\* C27: in a room workspace a tracked job id is only ever replaced by null, in
\* the step that dispatches its terminal snapshot: no step overwrites a
\* non-null activeJobId with another job id.
C27_TrackedJobOnlyCleared ==
    [][(activeJobId # NoId /\ activeJobId' # activeJobId)
          => /\ activeJobId' = NoId
             /\ Handled(activeJobId)]_vars

\* a successful submission has returned the job id
Returned(id) == jobs[id].status # "none"

\* C28: with ticks firing, every status request answered successfully and
\* every job reaching a terminal status on the server, every job id returned by
\* a successful submission is eventually dispatched, and pipelineStatus
\* eventually becomes null.
C28_EveryJobDispatched ==
    \A id \in JobIds :
        /\ Returned(id) ~> (dispatched[id] > 0)
        /\ Returned(id) ~> (pipelineStatus = NULL)

\* ---- the image collection

NoDuplicates(xs) == \A i, j \in 1..Len(xs) : xs[i] = xs[j] => i = j

\* the URLs a step delivers to the page: the approved URLs of a room fetch that
\* settles, the result URLs of an image job whose completion is dispatched, the
\* assistant image URLs of a transcript fetch that settles
DeliveredUrls ==
    (IF roomFetches' # roomFetches THEN Range(room'.approved2dImageUrls) ELSE {})
    \cup (IF msgFetches' < msgFetches THEN Range(UrlsFromMessages(messages')) ELSE {})
    \cup UNION {Range(job'["room"].output.resultUrls) :
                   id \in {j \in JobIds : /\ Handled(j)
                                          /\ job'["room"].id = j
                                          /\ job'["room"].type = "image_2d"
                                          /\ job'["room"].status = "completed"}}

\* C29: after every step generatedImages holds no URL twice and holds exactly
\* the URLs it held before together with the URLs the step delivered: none is
\* lost, none is added from elsewhere, and a URL delivered again is not added
\* again.
C29_ImagesAreTheUnion ==
    [][/\ NoDuplicates(generatedImages')
       /\ Range(generatedImages') = Range(generatedImages) \cup DeliveredUrls]_vars

\* the same URL has arrived with the room, with a job's result and with the
\* transcript, a second URL with the job and the transcript
C29_Witness ==
    /\ generatedImages = <<"u1", "u2">>
    /\ room.approved2dImageUrls = <<"u1">>
    /\ UrlsFromMessages(messages) = <<"u2", "u1">>
    /\ \E id \in JobIds : dispatched[id] > 0 /\ jobs[id].output.resultUrls = <<"u2", "u1">>

\* ---- approvals

\* occurrences of x in xs
CountOf(xs, x) == Cardinality({i \in 1..Len(xs) : xs[i] = x})

\* C30: once every approval request has resolved and none has failed, every
\* URL an approval was requested for is in room.approved2dImageUrls exactly
\* once, in the page's room and in the body of the last request sent.
C30_NoApprovalLost ==
    (approve.inflight = {} /\ approve.failed = 0)
        => \A u \in approve.requested :
              /\ CountOf(room.approved2dImageUrls, u) = 1
              /\ CountOf(approve.lastBody, u) = 1

====
